---- MODULE Spec2Model ----
(***************************************************************************)
(* Model of the USPTO ODP Go client: patent number normalisation and       *)
(* formatting (NormalizePatentNumber, FormatAs...), resolution through the *)
(* search endpoint (ResolvePatentNumber, GetPatent, retryableRequest),     *)
(* bulk file download (DownloadBulkFileWithProgress), XML document parsing *)
(* (ParseXMLWithType) and text extraction (ExtractClaimText and the        *)
(* functions of the sections).                                             *)
(*                                                                         *)
(* Strings are sequences of one-character strings, so that trimming,       *)
(* regular-expression matching and concatenation are computed, not assumed.*)
(***************************************************************************)
EXTENDS Integers, Sequences, FiniteSets, TLC

VARIABLES
    pc,         \* position of the modelled call: "call", "done", ...
    err,        \* error returned by the call (ErrNil for nil)
    input,      \* argument of NormalizePatentNumber / ResolvePatentNumber
    pn,         \* *PatentNumber returned by NormalizePatentNumber (NilPN for nil)
    formatter,  \* the formatter of pn that was called last ("" before any call)
    formatted,  \* the string it returned
    second,     \* (pn, err) of NormalizePatentNumber(pn.Normalized), once called
    claim,      \* receiver of ExtractClaimText (NilClaim for a nil *Claim)
    text,       \* string returned by ExtractClaimText and the other extractions
    fn,         \* the extraction function that was called ("" before the call)
    texts,      \* []string returned by ExtractAllClaimsText (NilStrings for nil)
    panicked,   \* the call ended in a nil pointer dereference
    data,       \* bytes given to the parser, as a sequence of XML tokens
    expectedType, \* expectedType argument of ParseXMLWithType
    doc,        \* *XMLDocument returned by the parser (NilDoc for nil)
    maxRetries, \* Config.MaxRetries
    retryDelay, \* Config.RetryDelay, in seconds
    query,      \* query of the search under way
    attempt,    \* loop counter of retryableRequest
    requests,   \* the search requests sent to the API so far
    responses,  \* the outcome of each of them
    sleeps,     \* the durations of the time.Sleep calls so far, in seconds
    searchCalls, \* number of calls of SearchPatents so far
    appNo,      \* string returned by ResolvePatentNumber
    ctxErr,     \* ctx.Err() of the caller's context (ErrNil while it is live)
    dataRequests,  \* application numbers of the application-data requests sent
    dataResponses, \* the outcome of each of them
    patent,     \* *PatentDataResponse returned by GetPatent (NilPatent for nil)
    uri,        \* fileDownloadURI argument of DownloadBulkFileWithProgress
    apiKey,     \* Config.APIKey ("" when none is configured)
    progress,   \* a progress callback was given (progress != nil)
    wCap,       \* number of Write calls w accepts before it fails
    sent,       \* the download requests sent
    response,   \* outcome of httpClient.Do (NoResponse before it)
    respBody,   \* chunks resp.Body has still to deliver
    bodyClosed, \* resp.Body.Close() has run
    gpc,        \* position of the reader goroutine: "none", "read", "write", "exit"
    pipe,       \* chunk pw.Write is waiting to hand over (<<>> for none)
    hand,       \* chunk io.Copy has read and not yet written to w
    written,    \* the goroutine's byte counter
    progressCalls, \* arguments of the calls of progress so far
    w,          \* bytes written to w
    wWrites,    \* number of Write calls on w so far
    bytesWritten \* bytes io.Copy has copied

formatVars == <<formatter, formatted, second>>
normVars == <<input, pn, formatVars>>
extractVars == <<claim, text, fn, texts, panicked>>
parseVars == <<data, expectedType, doc>>
configVars == <<maxRetries, retryDelay>>
clientVars == <<query, attempt, requests, responses, sleeps, searchCalls, appNo, ctxErr>>

getVars == <<dataRequests, dataResponses, patent>>
downloadVars == <<uri, apiKey, progress, wCap, sent, response, respBody, bodyClosed, gpc,
                  pipe, hand, written, progressCalls, w, wWrites, bytesWritten>>

vars == <<pc, err, normVars, extractVars, parseVars, configVars,
                   getVars, downloadVars,
          clientVars>>

-----------------------------------------------------------------------------
(* Characters and strings                                                  *)

Digit == {"0", "1", "2", "3", "4", "5", "6", "7", "8", "9"}

Upper == {"A", "B", "C", "D", "E", "F", "G", "H", "I", "J", "K", "L", "M",
          "N", "O", "P", "Q", "R", "S", "T", "U", "V", "W", "X", "Y", "Z"}

\* \s of the patterns and the characters strings.TrimSpace removes
WhiteSpace == {" ", "\t", "\n"}

RECURSIVE TrimLeft(_)
TrimLeft(s) ==
    IF s # <<>> /\ Head(s) \in WhiteSpace THEN TrimLeft(Tail(s)) ELSE s

RECURSIVE TrimRight(_)
TrimRight(s) ==
    IF s # <<>> /\ s[Len(s)] \in WhiteSpace
    THEN TrimRight(SubSeq(s, 1, Len(s) - 1))
    ELSE s

\* strings.TrimSpace
TrimSpace(s) == TrimRight(TrimLeft(s))

-----------------------------------------------------------------------------
(* Regular expressions: a pattern is a sequence of alternatives (an        *)
(* optional group is expanded, the branch with the group first); an        *)
(* alternative is a sequence of items [cls, min, max, cap]: between min    *)
(* and max characters of the class cls, greedy, captured as group cap      *)
(* when cap > 0.  All patterns are anchored with ^ and $.                  *)

NoMatch == <<"nomatch">>

Item(cls, min, max, cap) == [cls |-> cls, min |-> min, max |-> max, cap |-> cap]
Lit(c) == Item({c}, 1, 1, 0)

\* upper bound that stands for the unbounded * and + quantifiers
Unbounded == 64

RECURSIVE RunLength(_, _, _, _)
RunLength(s, pos, cls, max) ==
    IF max = 0 \/ pos > Len(s) \/ s[pos] \notin cls
    THEN 0
    ELSE 1 + RunLength(s, pos + 1, cls, max - 1)

RECURSIVE MatchItems(_, _, _, _)
RECURSIVE TryCount(_, _, _, _, _)
MatchItems(items, s, pos, caps) ==
    IF items = <<>>
    THEN IF pos = Len(s) + 1 THEN caps ELSE NoMatch
    ELSE TryCount(items, s, pos, caps,
                  RunLength(s, pos, Head(items).cls, Head(items).max))

TryCount(items, s, pos, caps, n) ==
    LET it == Head(items) IN
    IF n < it.min
    THEN NoMatch
    ELSE LET caps2 == IF it.cap > 0
                      THEN [caps EXCEPT ![it.cap] = SubSeq(s, pos, pos + n - 1)]
                      ELSE caps
             r == MatchItems(Tail(items), s, pos + n, caps2)
         IN  IF r # NoMatch THEN r ELSE TryCount(items, s, pos, caps, n - 1)

RECURSIVE FirstMatch(_, _)
FirstMatch(alts, s) ==
    IF alts = <<>>
    THEN NoMatch
    ELSE LET r == MatchItems(Head(alts), s, 1, <<<<>>, <<>>, <<>>>>)
         IN  IF r # NoMatch THEN r ELSE FirstMatch(Tail(alts), s)

\* regexp.FindStringSubmatch: the capture groups, or NoMatch for nil
FindStringSubmatch(pattern, s) == FirstMatch(pattern, s)

\* regexp.MatchString
MatchString(pattern, s) == FirstMatch(pattern, s) # NoMatch

\* (?:US)? in front of body
OptUS(body) == << <<Lit("U"), Lit("S")>> \o body, body >>

\* ^(?:US)?[\s]*(\d{2})/(\d{3})[,\s]*(\d{3})$
applicationWithSlashPattern ==
    OptUS(<< Item(WhiteSpace, 0, Unbounded, 0),
             Item(Digit, 2, 2, 1),
             Lit("/"),
             Item(Digit, 3, 3, 2),
             Item({","} \cup WhiteSpace, 0, Unbounded, 0),
             Item(Digit, 3, 3, 3) >>)

\* ^(?:US)?[\s]*(\d{1,2})[,\s]*(\d{3})[,\s]*(\d{3})[\s]+[A-Z]\d$
grantWithKindPattern ==
    OptUS(<< Item(WhiteSpace, 0, Unbounded, 0),
             Item(Digit, 1, 2, 1),
             Item({","} \cup WhiteSpace, 0, Unbounded, 0),
             Item(Digit, 3, 3, 2),
             Item({","} \cup WhiteSpace, 0, Unbounded, 0),
             Item(Digit, 3, 3, 3),
             Item(WhiteSpace, 1, Unbounded, 0),
             Item(Upper, 1, 1, 0),
             Item(Digit, 1, 1, 0) >>)

\* ^(?:US)?[\s]*(\d{1,2}),(\d{3}),(\d{3})$
grantWithCommaPattern ==
    OptUS(<< Item(WhiteSpace, 0, Unbounded, 0),
             Item(Digit, 1, 2, 1),
             Lit(","),
             Item(Digit, 3, 3, 2),
             Lit(","),
             Item(Digit, 3, 3, 3) >>)

\* ^(?:US)?[\s]*(\d{4})[/,\s]*(\d{7})(?:\s*[A-Z]\d)?$
publicationPattern ==
    LET body == << Item(WhiteSpace, 0, Unbounded, 0),
                   Item(Digit, 4, 4, 1),
                   Item({"/", ","} \cup WhiteSpace, 0, Unbounded, 0),
                   Item(Digit, 7, 7, 2) >>
        kind == << Item(WhiteSpace, 0, Unbounded, 0),
                   Item(Upper, 1, 1, 0),
                   Item(Digit, 1, 1, 0) >>
    IN  OptUS(body \o kind) \o OptUS(body)

\* ^\d+$
digitsOnlyPattern == << << Item(Digit, 1, Unbounded, 0) >> >>

-----------------------------------------------------------------------------
(* PatentNumber and NormalizePatentNumber                                  *)

PatentNumberTypeUnknown == 0
PatentNumberTypeApplication == 1
PatentNumberTypeGrant == 2
PatentNumberTypePublication == 3

NilPN == [nil |-> TRUE]

\* errors are records: msg, and cause for an error that wraps another (%w)
ErrNil == [msg |-> "nil"]
ErrEmpty == [msg |-> "patent number cannot be empty"]
ErrInvalidLength == [msg |-> "unrecognized patent number format (invalid length)"]
ErrUnrecognized == [msg |-> "unrecognized patent number format"]

PatentNumber(original, normalized, applicationNo, type) ==
    [Original |-> original, Normalized |-> normalized,
     ApplicationNo |-> applicationNo, Type |-> type, Country |-> <<"U", "S">>]

\* FromGrantWithKind that drops the series group
FromGrantWithKindNoSeries(in, matches) ==
    [pn |-> PatentNumber(in, matches[2] \o matches[3], <<>>, PatentNumberTypeGrant),
     err |-> ErrNil]

\* result of a match of grantWithKindPattern
FromGrantWithKind(in, matches) ==
    [pn |-> PatentNumber(in, matches[1] \o (matches[2] \o matches[3]), <<>>,
                         PatentNumberTypeGrant),
     err |-> ErrNil]

\* result of a match of applicationWithSlashPattern
FromApplicationWithSlash(in, matches) ==
    [pn |-> PatentNumber(in, matches[1] \o (matches[2] \o matches[3]),
                         matches[1] \o (matches[2] \o matches[3]),
                         PatentNumberTypeApplication),
     err |-> ErrNil]

\* FromGrantWithComma that classifies as the application branch above it does
FromGrantWithCommaAsApplication(in, matches) ==
    [pn |-> PatentNumber(in, matches[1] \o (matches[2] \o matches[3]), <<>>,
                         PatentNumberTypeApplication),
     err |-> ErrNil]

\* result of a match of grantWithCommaPattern
FromGrantWithComma(in, matches) ==
    [pn |-> PatentNumber(in, matches[1] \o (matches[2] \o matches[3]), <<>>,
                         PatentNumberTypeGrant),
     err |-> ErrNil]

\* FromPublication that fills ApplicationNo as the application branch does
FromPublicationWithAppNo(in, matches) ==
    [pn |-> PatentNumber(in, matches[1] \o matches[2], matches[1] \o matches[2],
                         PatentNumberTypePublication),
     err |-> ErrNil]

\* result of a match of publicationPattern
FromPublication(in, matches) ==
    [pn |-> PatentNumber(in, matches[1] \o matches[2], <<>>,
                         PatentNumberTypePublication),
     err |-> ErrNil]

\* FromDigitsOnly that takes 8 digits for a grant
FromDigitsOnlyEightIsGrant(in, cleaned) ==
    LET length == Len(cleaned) IN
    CASE length = 7 \/ length = 8 ->
           [pn |-> PatentNumber(in, cleaned, <<>>, PatentNumberTypeGrant), err |-> ErrNil]
      [] length = 9 ->
           [pn |-> PatentNumber(in, cleaned, cleaned, PatentNumberTypeApplication),
            err |-> ErrNil]
      [] length = 11 ->
           [pn |-> PatentNumber(in, cleaned, <<>>, PatentNumberTypePublication),
            err |-> ErrNil]
      [] OTHER ->
           [pn |-> NilPN, err |-> ErrInvalidLength]

\* FromDigitsOnly that takes 7 digits for an application
FromDigitsOnlySevenIsApplication(in, cleaned) ==
    LET length == Len(cleaned) IN
    CASE length = 7 \/ length = 8 \/ length = 9 ->
           [pn |-> PatentNumber(in, cleaned, cleaned, PatentNumberTypeApplication),
            err |-> ErrNil]
      [] length = 11 ->
           [pn |-> PatentNumber(in, cleaned, <<>>, PatentNumberTypePublication),
            err |-> ErrNil]
      [] OTHER ->
           [pn |-> NilPN, err |-> ErrInvalidLength]

\* the digits-only fallback: the switch on len(cleaned)
FromDigitsOnly(in, cleaned) ==
    LET length == Len(cleaned) IN
    CASE length = 7 ->
           [pn |-> PatentNumber(in, cleaned, <<>>, PatentNumberTypeGrant), err |-> ErrNil]
      [] length = 8 \/ length = 9 ->
           [pn |-> PatentNumber(in, cleaned, cleaned, PatentNumberTypeApplication),
            err |-> ErrNil]
      [] length = 11 ->
           [pn |-> PatentNumber(in, cleaned, <<>>, PatentNumberTypePublication),
            err |-> ErrNil]
      [] OTHER ->
           [pn |-> NilPN, err |-> ErrInvalidLength]

\* NormalizePatentNumber that takes an input no pattern matches as a number
\* of unknown type
NormalizePatentNumberAcceptsAll(in) ==
    LET cleaned == TrimSpace(in)
        gk == FindStringSubmatch(grantWithKindPattern, cleaned)
        as == FindStringSubmatch(applicationWithSlashPattern, cleaned)
        gc == FindStringSubmatch(grantWithCommaPattern, cleaned)
        pb == FindStringSubmatch(publicationPattern, cleaned)
    IN  IF gk # NoMatch THEN FromGrantWithKind(in, gk)
        ELSE IF as # NoMatch THEN FromApplicationWithSlash(in, as)
        ELSE IF gc # NoMatch THEN FromGrantWithComma(in, gc)
        ELSE IF pb # NoMatch THEN FromPublication(in, pb)
        ELSE IF MatchString(digitsOnlyPattern, cleaned) THEN FromDigitsOnly(in, cleaned)
        ELSE [pn |-> PatentNumber(in, cleaned, <<>>, PatentNumberTypeUnknown),
              err |-> ErrNil]

\* NormalizePatentNumber(input) as the pair (pn, err) it returns
NormalizePatentNumber(in) ==
    IF in = <<>>
    THEN [pn |-> NilPN, err |-> ErrEmpty]
    ELSE
    LET cleaned == TrimSpace(in)
        gk == FindStringSubmatch(grantWithKindPattern, cleaned)
        as == FindStringSubmatch(applicationWithSlashPattern, cleaned)
        gc == FindStringSubmatch(grantWithCommaPattern, cleaned)
        pb == FindStringSubmatch(publicationPattern, cleaned)
    IN  IF gk # NoMatch THEN FromGrantWithKind(in, gk)
        ELSE IF as # NoMatch THEN FromApplicationWithSlash(in, as)
        ELSE IF gc # NoMatch THEN FromGrantWithComma(in, gc)
        ELSE IF pb # NoMatch THEN FromPublication(in, pb)
        ELSE IF MatchString(digitsOnlyPattern, cleaned) THEN FromDigitsOnly(in, cleaned)
        ELSE [pn |-> NilPN, err |-> ErrUnrecognized]

\* s[from:to] and s[from:] of Go, with 0-based from and exclusive to
Slice(s, from, to) == SubSeq(s, from + 1, to)
SliceFrom(s, from) == SubSeq(s, from + 1, Len(s))

\* FormatAsApplication without the test of the type
FormatAsApplicationAnyType(p) ==
    IF Len(p.Normalized) >= 8
    THEN Slice(p.Normalized, 0, 2) \o <<"/">> \o Slice(p.Normalized, 2, 5)
             \o <<",">> \o SliceFrom(p.Normalized, 5)
    ELSE p.Normalized

\* (*PatentNumber).FormatAsApplication
FormatAsApplication(p) ==
    IF p.Type # PatentNumberTypeApplication THEN p.Normalized
    ELSE IF Len(p.Normalized) >= 8
    THEN Slice(p.Normalized, 0, 2) \o <<"/">> \o Slice(p.Normalized, 2, 5)
             \o <<",">> \o SliceFrom(p.Normalized, 5)
    ELSE p.Normalized

\* (*PatentNumber).FormatAsGrant
FormatAsGrant(p) ==
    IF p.Type # PatentNumberTypeGrant THEN p.Normalized
    ELSE IF Len(p.Normalized) >= 7 /\ Len(p.Normalized) = 7
    THEN Slice(p.Normalized, 0, 1) \o <<",">> \o Slice(p.Normalized, 1, 4)
             \o <<",">> \o SliceFrom(p.Normalized, 4)
    ELSE IF Len(p.Normalized) >= 7 /\ Len(p.Normalized) = 8
    THEN Slice(p.Normalized, 0, 2) \o <<",">> \o Slice(p.Normalized, 2, 5)
             \o <<",">> \o SliceFrom(p.Normalized, 5)
    ELSE p.Normalized

\* (*PatentNumber).FormatAsPublication
FormatAsPublication(p) ==
    IF p.Type # PatentNumberTypePublication THEN p.Normalized
    ELSE IF Len(p.Normalized) = 11
    THEN Slice(p.Normalized, 0, 4) \o <<"/">> \o SliceFrom(p.Normalized, 4)
    ELSE p.Normalized

-----------------------------------------------------------------------------
(* Claims and ExtractClaimText                                             *)

NilClaim == [nil |-> TRUE]

\* ClaimText: its character data and its nested claim-text elements
ClaimText(txt, nested) == [Text |-> txt, NestedClaims |-> nested]

\* Claim: the num attribute and the claim-text elements
Claim(num, claimTexts) == [Num |-> num, ClaimText |-> claimTexts]

\* builder.WriteString(" ") when the builder is not empty, then the fragment,
\* both only for a non-empty fragment; without the separator
WriteFragmentNoSeparator(builder, fragment) ==
    IF fragment # <<>> THEN builder \o fragment ELSE builder

\* builder.WriteString(" ") when the builder is not empty, then the fragment,
\* both only for a non-empty fragment
WriteFragment(builder, fragment) ==
    IF fragment # <<>>
    THEN (IF Len(builder) > 0 THEN builder \o <<" ">> ELSE builder) \o fragment
    ELSE builder

RECURSIVE extractClaimTextRecursive(_, _)
RECURSIVE ClaimTextLoop(_, _, _, _)
\* the loop over claimTexts from index i on, with the builder so far
ClaimTextLoop(claimTexts, i, builder, depth) ==
    IF i > Len(claimTexts)
    THEN builder
    ELSE LET ct == claimTexts[i]
             own == WriteFragment(builder, TrimSpace(ct.Text))
             all == IF Len(ct.NestedClaims) > 0
                    THEN WriteFragment(own,
                             extractClaimTextRecursive(ct.NestedClaims, depth + 1))
                    ELSE own
         IN  ClaimTextLoop(claimTexts, i + 1, all, depth)

extractClaimTextRecursive(claimTexts, depth) ==
    TrimSpace(ClaimTextLoop(claimTexts, 1, <<>>, depth))

ExtractClaimText(c) ==
    IF c = NilClaim THEN <<>> ELSE extractClaimTextRecursive(c.ClaimText, 0)

-----------------------------------------------------------------------------
(* The sections of a document and their text                               *)

\* a nil *Bibliography, *Abstract, *Description or *Claims
NilSection == [nil |-> TRUE]

\* a []string: nil, or a slice with the elements val
NilStrings == [nil |-> TRUE]
Strings(val) == [nil |-> FALSE, val |-> val]

\* Text, Heading and Paragraph: the character data
Text(txt) == [Text |-> txt]
Heading(txt) == [Text |-> txt]
Paragraph(txt) == [Text |-> txt]

Bibliography(inventionTitle) == [InventionTitle |-> inventionTitle]
Abstract(paragraphs) == [Paragraphs |-> paragraphs]
Description(headings, paragraphs) == [Headings |-> headings, Paragraphs |-> paragraphs]
Claims(claimList) == [ClaimList |-> claimList]

\* a PatentGrant or PatentApplication with its sections
PatentElement(name, bibliography, abstract, description, claims) ==
    [XMLName |-> name, Bibliography |-> bibliography, Abstract |-> abstract,
     Description |-> description, Claims |-> claims]

\* the decoder filling a Description from the children of the description
\* element: every heading goes to Headings and every p to Paragraphs, each
\* slice in the order of the source
DecodeDescription(children) ==
    Description(
        [i \in 1..Len(SelectSeq(children, LAMBDA c : c.tag = "heading")) |->
            Heading(SelectSeq(children, LAMBDA c : c.tag = "heading")[i].Text)],
        [i \in 1..Len(SelectSeq(children, LAMBDA c : c.tag = "p")) |->
            Paragraph(SelectSeq(children, LAMBDA c : c.tag = "p")[i].Text)])

\* the functions of a document that read the fields of the Grant variant
\* whatever the type of the document
NilDereferenceWithoutGrant(d) == d = [nil |-> TRUE] \/ d.Grant = [nil |-> TRUE]

\* a function of a *XMLDocument d ends in a nil pointer dereference: all of
\* them start with d.GetDocumentType(), which reads d.Grant, and go on to
\* the fields of a variant only when it is not nil
NilDereference(d) == d = [nil |-> TRUE]

\* the variant GetTitle, GetAbstract, GetDescription and GetClaims read:
\* d.Grant, d.Application or none
Variant(d) ==
    IF d.Grant # [nil |-> TRUE] THEN d.Grant
    ELSE IF d.Application # [nil |-> TRUE] THEN d.Application
    ELSE [nil |-> TRUE]

\* (*XMLDocument).GetTitle
GetTitle(d) ==
    IF Variant(d) = [nil |-> TRUE] THEN <<>>
    ELSE LET bib == Variant(d).Bibliography IN
         IF bib = NilSection THEN <<>>
         ELSE IF Len(bib.InventionTitle) = 0 THEN <<>>
         ELSE TrimSpace(bib.InventionTitle[1].Text)

\* (*XMLDocument).GetAbstract
GetAbstract(d) ==
    IF Variant(d) = [nil |-> TRUE] THEN NilSection ELSE Variant(d).Abstract

\* (*XMLDocument).GetDescription
GetDescription(d) ==
    IF Variant(d) = [nil |-> TRUE] THEN NilSection ELSE Variant(d).Description

\* (*XMLDocument).GetClaims
GetClaims(d) ==
    IF Variant(d) = [nil |-> TRUE] THEN NilSection ELSE Variant(d).Claims

\* extractParagraphText that hands back the text as it is
extractParagraphTextRaw(p) == p.Text

extractParagraphText(p) == TrimSpace(p.Text)

\* the separator between two pieces: builder.WriteString("\n\n")
BlankLine == <<"\n", "\n">>

\* the loop of ExtractAbstractText from index i on
RECURSIVE AbstractLoop(_, _, _)
AbstractLoop(paragraphs, i, builder) ==
    IF i > Len(paragraphs)
    THEN builder
    ELSE AbstractLoop(paragraphs, i + 1,
             (IF i > 1 THEN builder \o BlankLine ELSE builder)
                 \o extractParagraphText(paragraphs[i]))

\* (*Abstract).ExtractAbstractText
ExtractAbstractText(a) ==
    IF a = NilSection THEN <<>> ELSE TrimSpace(AbstractLoop(a.Paragraphs, 1, <<>>))

\* the two loops of ExtractDescriptionText: pieces are the trimmed texts
RECURSIVE DescriptionLoop(_, _, _)
DescriptionLoop(pieces, i, builder) ==
    IF i > Len(pieces)
    THEN builder
    ELSE DescriptionLoop(pieces, i + 1,
             (IF Len(builder) > 0 THEN builder \o BlankLine ELSE builder) \o pieces[i])

\* ExtractDescriptionText with the loop over the paragraphs first
ExtractDescriptionTextParagraphsFirst(d) ==
    IF d = NilSection THEN <<>>
    ELSE LET headings == [i \in 1..Len(d.Headings) |-> TrimSpace(d.Headings[i].Text)]
             paragraphs == [i \in 1..Len(d.Paragraphs) |->
                               extractParagraphText(d.Paragraphs[i])]
         IN  TrimSpace(DescriptionLoop(headings, 1,
                           DescriptionLoop(paragraphs, 1, <<>>)))

\* (*Description).ExtractDescriptionText
ExtractDescriptionText(d) ==
    IF d = NilSection THEN <<>>
    ELSE LET headings == [i \in 1..Len(d.Headings) |-> TrimSpace(d.Headings[i].Text)]
             paragraphs == [i \in 1..Len(d.Paragraphs) |->
                               extractParagraphText(d.Paragraphs[i])]
         IN  TrimSpace(DescriptionLoop(paragraphs, 1,
                           DescriptionLoop(headings, 1, <<>>)))

\* AllClaimsLoop that appends the text of every claim
RECURSIVE AllClaimsLoopKeepEmpty(_, _, _)
AllClaimsLoopKeepEmpty(claimList, i, result) ==
    IF i > Len(claimList)
    THEN result
    ELSE AllClaimsLoopKeepEmpty(claimList, i + 1,
             Append(result, ExtractClaimText(claimList[i])))

\* the loop of ExtractAllClaimsText from index i on
RECURSIVE AllClaimsLoop(_, _, _)
AllClaimsLoop(claimList, i, result) ==
    IF i > Len(claimList)
    THEN result
    ELSE AllClaimsLoop(claimList, i + 1,
             IF ExtractClaimText(claimList[i]) # <<>>
             THEN Append(result, ExtractClaimText(claimList[i]))
             ELSE result)

\* (*Claims).ExtractAllClaimsText
ExtractAllClaimsText(c) ==
    IF c = NilSection THEN NilStrings
    ELSE IF Len(c.ClaimList) = 0 THEN NilStrings
    ELSE Strings(AllClaimsLoop(c.ClaimList, 1, <<>>))

DigitChars == <<"0", "1", "2", "3", "4", "5", "6", "7", "8", "9">>

DigitValue(c) == CHOOSE d \in 0..9 : DigitChars[d + 1] = c

\* strconv.ParseInt of a run of decimal digits
RECURSIVE DecimalValue(_)
DecimalValue(digits) ==
    IF digits = <<>> THEN 0
    ELSE 10 * DecimalValue(SubSeq(digits, 1, Len(digits) - 1))
             + DigitValue(digits[Len(digits)])

\* the spaces Sscanf skips in front of a number: a newline is not one of them
RECURSIVE SkipSpace(_)
SkipSpace(s) ==
    IF s # <<>> /\ Head(s) \in {" ", "\t"} THEN SkipSpace(Tail(s)) ELSE s

\* fmt.Sscanf(s, "%d", &n): spaces are skipped, a sign is accepted, then the
\* longest run of digits is read, which must not be empty; what follows
\* the digits is not looked at.  ok is err == nil, value is n.
SscanfInt(s) ==
    LET t == SkipSpace(s)
        signed == t # <<>> /\ Head(t) \in {"+", "-"}
        u == IF signed THEN Tail(t) ELSE t
        n == RunLength(u, 1, Digit, Len(u))
    IN  IF n = 0
        THEN [ok |-> FALSE, value |-> 0]
        ELSE [ok |-> TRUE,
              value |-> IF signed /\ Head(t) = "-"
                        THEN 0 - DecimalValue(SubSeq(u, 1, n))
                        ELSE DecimalValue(SubSeq(u, 1, n))]

\* %d of fmt.Fprintf
RECURSIVE FormatNat(_)
FormatNat(n) ==
    IF n < 10 THEN <<DigitChars[n + 1]>>
    ELSE FormatNat(n \div 10) \o <<DigitChars[(n % 10) + 1]>>

FormatInt(n) == IF n < 0 THEN <<"-">> \o FormatNat(0 - n) ELSE FormatNat(n)

\* claimNum that is always the position
ClaimNumPositionOnly(num, position) == position

\* claimNum of ExtractAllClaimsTextFormatted for the claim at the 1-based
\* position (i + 1 in the code)
ClaimNum(num, position) ==
    IF num = <<>> THEN position
    ELSE IF SscanfInt(num).ok THEN SscanfInt(num).value
    ELSE position

\* the loop of ExtractAllClaimsTextFormatted from index i on
RECURSIVE FormattedLoop(_, _, _)
FormattedLoop(claimList, i, builder) ==
    IF i > Len(claimList)
    THEN builder
    ELSE FormattedLoop(claimList, i + 1,
             (IF i > 1 THEN builder \o BlankLine ELSE builder)
                 \o <<"C", "L", "A", "I", "M", " ">>
                 \o FormatInt(ClaimNum(claimList[i].Num, i))
                 \o <<":", "\n">>
                 \o ExtractClaimText(claimList[i]))

\* (*Claims).ExtractAllClaimsTextFormatted
ExtractAllClaimsTextFormatted(c) ==
    IF c = NilSection THEN <<>>
    ELSE IF Len(c.ClaimList) = 0 THEN <<>>
    ELSE FormattedLoop(c.ClaimList, 1, <<>>)

-----------------------------------------------------------------------------
(* Inputs of the extraction: every claim with at most MaxNodes claim-text  *)
(* elements, nested in every possible way                                  *)

MaxNodes == 4

NodeTexts == { <<>>, <<"a">>, <<" ", "b", "\t">> }

\* the sequences of claim-text elements that hold n elements in all
RECURSIVE ClaimTextLists(_)
ClaimTextLists(n) ==
    IF n = 0
    THEN { <<>> }
    ELSE UNION { { <<ClaimText(t, nested)>> \o rest :
                      t \in NodeTexts,
                      nested \in ClaimTextLists(k),
                      rest \in ClaimTextLists(n - 1 - k) } : k \in 0..(n - 1) }

\* the same elements with white space only in place of every empty Text
RECURSIVE WithBlanks(_)
WithBlanks(claimTexts) ==
    [i \in 1..Len(claimTexts) |->
        ClaimText(IF claimTexts[i].Text = <<>> THEN <<" ">> ELSE claimTexts[i].Text,
                  WithBlanks(claimTexts[i].NestedClaims))]

ExtractInputs ==
    LET lists == UNION { ClaimTextLists(n) : n \in 0..MaxNodes } IN
    { Claim(<<>>, cts) : cts \in lists }
        \cup { Claim(<<>>, WithBlanks(cts)) : cts \in lists }
        \cup { NilClaim }

-----------------------------------------------------------------------------
(* XML documents and the parser.  The bytes are a sequence of tokens as    *)
(* the decoder of encoding/xml reads them: a start tag, an end tag, or a   *)
(* piece of text that is not XML (Bad).                                    *)

GrantRoot == "us-patent-grant"
ApplicationRoot == "us-patent-application"
\* an element that is neither root: a section of a document or a foreign root
OtherElement == "claims"

ElementNames == { GrantRoot, ApplicationRoot, OtherElement }

StartTag(name) == [kind |-> "start", name |-> name]
EndTag(name) == [kind |-> "end", name |-> name]
Bad == [kind |-> "bad", name |-> ""]

Tokens == { StartTag(n) : n \in ElementNames } \cup { EndTag(n) : n \in ElementNames }
              \cup { Bad }

DocumentTypeUnknown == 0
DocumentTypeGrant == 1
DocumentTypeApplication == 2

NilDoc == [nil |-> TRUE]
\* a nil *PatentGrant or *PatentApplication
NilElement == [nil |-> TRUE]

ErrEOF == [msg |-> "EOF"]
ErrSyntax == [msg |-> "XML syntax error"]
ErrElementType(expected, actual) ==
    [msg |-> "expected element type", expected |-> expected, actual |-> actual]
ErrRootElement(expected, got) ==
    [msg |-> "expected root element", expected |-> expected, got |-> got]
ErrUnrecognizedDocument == [msg |-> "unrecognized XML document type"]
ErrInvalidDocumentType == [msg |-> "invalid document type"]

\* fmt.Errorf("...: %w", cause)
Wrap(msg, cause) == [msg |-> msg, cause |-> cause]

\* The decoder reading the content of the open elements in stack from token
\* i on: the index of the end tag that closes the outermost element, or 0
\* for a syntax error (a Bad token, an end tag that does not match, or the
\* end of the input inside an element).
RECURSIVE ReadElement(_, _, _)
ReadElement(toks, i, stack) ==
    IF i > Len(toks) THEN 0
    ELSE IF toks[i].kind = "bad" THEN 0
    ELSE IF toks[i].kind = "start"
         THEN ReadElement(toks, i + 1, <<toks[i].name>> \o stack)
    ELSE IF toks[i].name # Head(stack) THEN 0
    ELSE IF Len(stack) = 1 THEN i
    ELSE ReadElement(toks, i + 1, Tail(stack))

\* Unmarshal that takes an empty input for an element without content
UnmarshalEmptyInput(toks, name) ==
    IF toks = <<>>
    THEN [err |-> [msg |-> "nil"], value |-> [XMLName |-> name, Content |-> <<>>]]
    ELSE IF toks[1].kind # "start"
    THEN [err |-> ErrSyntax, value |-> NilElement]
    ELSE IF toks[1].name # name
         THEN [err |-> ErrElementType(name, toks[1].name), value |-> NilElement]
    ELSE LET end == ReadElement(toks, 2, <<toks[1].name>>) IN
         IF end = 0
         THEN [err |-> ErrSyntax, value |-> NilElement]
         ELSE [err |-> [msg |-> "nil"],
               value |-> [XMLName |-> toks[1].name,
                          Content |-> SubSeq(toks, 2, end - 1)]]

\* xml.Unmarshal(data, &v) for a struct v whose XMLName field is tagged with
\* name: the first element of the input is decoded, its name is checked
\* against the tag before its content is read, and nothing is read after
\* its end tag.
Unmarshal(toks, name) ==
    IF toks = <<>> THEN [err |-> ErrEOF, value |-> NilElement]
    ELSE IF toks[1].kind # "start" THEN [err |-> ErrSyntax, value |-> NilElement]
    ELSE IF toks[1].name # name
         THEN [err |-> ErrElementType(name, toks[1].name), value |-> NilElement]
    ELSE LET end == ReadElement(toks, 2, <<toks[1].name>>) IN
         IF end = 0
         THEN [err |-> ErrSyntax, value |-> NilElement]
         ELSE [err |-> ErrNil,
               value |-> [XMLName |-> toks[1].name,
                          Content |-> SubSeq(toks, 2, end - 1)]]

XMLDocument(grant, application) == [Grant |-> grant, Application |-> application]

\* (*XMLDocument).GetDocumentType
GetDocumentType(d) ==
    IF d.Grant # NilElement THEN DocumentTypeGrant
    ELSE IF d.Application # NilElement THEN DocumentTypeApplication
    ELSE DocumentTypeUnknown

\* case DocumentTypeGrant that also takes an application document, storing it
\* in the Grant field
ParseGrantAcceptsApplication(toks) ==
    LET r == Unmarshal(toks, GrantRoot)
        a == Unmarshal(toks, ApplicationRoot)
    IN  IF r.err = ErrNil /\ r.value.XMLName = GrantRoot
        THEN [doc |-> XMLDocument(r.value, NilElement), err |-> ErrNil]
        ELSE IF a.err = ErrNil /\ a.value.XMLName = ApplicationRoot
        THEN [doc |-> XMLDocument(a.value, NilElement), err |-> ErrNil]
        ELSE [doc |-> NilDoc, err |-> Wrap("failed to parse as patent grant", r.err)]

\* case DocumentTypeGrant
ParseGrant(toks) ==
    LET r == Unmarshal(toks, GrantRoot) IN
    IF r.err # ErrNil
    THEN [doc |-> NilDoc, err |-> Wrap("failed to parse as patent grant", r.err)]
    ELSE IF r.value.XMLName # GrantRoot
    THEN [doc |-> NilDoc, err |-> ErrRootElement(GrantRoot, r.value.XMLName)]
    ELSE [doc |-> XMLDocument(r.value, NilElement), err |-> ErrNil]

\* case DocumentTypeApplication that stores the element in the Grant field
ParseApplicationIntoGrant(toks) ==
    LET r == Unmarshal(toks, ApplicationRoot) IN
    IF r.err # ErrNil
    THEN [doc |-> NilDoc, err |-> Wrap("failed to parse as patent application", r.err)]
    ELSE IF r.value.XMLName # ApplicationRoot
    THEN [doc |-> NilDoc, err |-> ErrRootElement(ApplicationRoot, r.value.XMLName)]
    ELSE [doc |-> XMLDocument(r.value, NilElement), err |-> ErrNil]

\* case DocumentTypeApplication
ParseApplication(toks) ==
    LET r == Unmarshal(toks, ApplicationRoot) IN
    IF r.err # ErrNil
    THEN [doc |-> NilDoc, err |-> Wrap("failed to parse as patent application", r.err)]
    ELSE IF r.value.XMLName # ApplicationRoot
    THEN [doc |-> NilDoc, err |-> ErrRootElement(ApplicationRoot, r.value.XMLName)]
    ELSE [doc |-> XMLDocument(NilElement, r.value), err |-> ErrNil]

\* case DocumentTypeUnknown that gives up after the grant attempt
ParseAutoDetectGrantOnly(toks) ==
    LET g == Unmarshal(toks, GrantRoot) IN
    IF g.err = ErrNil /\ g.value.XMLName = GrantRoot
    THEN [doc |-> XMLDocument(g.value, NilElement), err |-> ErrNil]
    ELSE [doc |-> NilDoc, err |-> ErrUnrecognizedDocument]

\* case DocumentTypeUnknown
ParseAutoDetect(toks) ==
    LET g == Unmarshal(toks, GrantRoot)
        a == Unmarshal(toks, ApplicationRoot)
    IN  IF g.err = ErrNil /\ g.value.XMLName = GrantRoot
        THEN [doc |-> XMLDocument(g.value, NilElement), err |-> ErrNil]
        ELSE IF a.err = ErrNil /\ a.value.XMLName = ApplicationRoot
        THEN [doc |-> XMLDocument(NilElement, a.value), err |-> ErrNil]
        ELSE [doc |-> NilDoc, err |-> ErrUnrecognizedDocument]

ParseXMLWithType(toks, expected) ==
    CASE expected = DocumentTypeGrant -> ParseGrant(toks)
      [] expected = DocumentTypeApplication -> ParseApplication(toks)
      [] expected = DocumentTypeUnknown -> ParseAutoDetect(toks)
      [] OTHER -> [doc |-> NilDoc, err |-> ErrInvalidDocumentType]

-----------------------------------------------------------------------------
(* The client: SearchPatents with retryableRequest, ResolvePatentNumber    *)

\* DefaultConfig
DefaultMaxRetries == 3
DefaultRetryDelay == 1

\* a *string: nil, or StringPtr(s)
NilString == [nil |-> TRUE]
StringPtr(s) == [nil |-> FALSE, val |-> s]

\* a *[]PatentFileWrapper: nil, or a pointer to the records
NilBag == [nil |-> TRUE]
BagPtr(records) == [nil |-> FALSE, val |-> records]

\* one record of the PatentFileWrapperDataBag
PatentRecord(applicationNumberText) == [ApplicationNumberText |-> applicationNumberText]

\* outcomes of one request: an error of the HTTP client, or a response with
\* a status code and, for 200, the decoded PatentDataResponse
TransportError == [kind |-> "error"]
StatusResponse(code) == [kind |-> "status", code |-> code]
OKResponse(bag) == [kind |-> "status", code |-> 200, PatentFileWrapperDataBag |-> bag]

\* context.Canceled and context.DeadlineExceeded
ErrCanceled == [msg |-> "context canceled"]
ErrDeadlineExceeded == [msg |-> "context deadline exceeded"]

\* the outcome of a request whose context is done: the HTTP client gives up
\* with an error that wraps ctx.Err()
ContextError(e) == [kind |-> "context", err |-> e]

\* errors.Is(e, target): target is e or in the chain of causes of e
RECURSIVE ErrorsIs(_, _)
ErrorsIs(e, target) ==
    \/ e = target
    \/ /\ "cause" \in DOMAIN e
       /\ ErrorsIs(e.cause, target)

\* the error fn returns for an outcome, ErrNil for a 200
RequestError(resp) ==
    IF resp.kind = "context" THEN [msg |-> "Post", cause |-> resp.err]
    ELSE IF resp.kind = "error" THEN [msg |-> "transport error"]
    ELSE IF resp.code # 200 THEN [msg |-> "API returned status", code |-> resp.code]
    ELSE ErrNil

\* the request SearchPatents builds: Q and Pagination
PatentSearchRequest(q, offset, limit) == [Q |-> q, Offset |-> offset, Limit |-> limit]

\* fmt.Sprintf("applicationMetaData.patentNumber:%s", grantNumber)
GrantQuery(grantNumber) == <<"applicationMetaData.patentNumber:">> \o grantNumber

HasPrefixUS(s) == Len(s) >= 2 /\ SubSeq(s, 1, 2) = <<"U", "S">>

\* FormattedPub that leaves out the kind code
FormattedPubNoKindCode(publicationNumber) ==
    IF Len(publicationNumber) = 11 /\ ~HasPrefixUS(publicationNumber)
    THEN <<"U", "S">> \o publicationNumber
    ELSE publicationNumber

\* the publication number as the search index holds it
FormattedPub(publicationNumber) ==
    IF Len(publicationNumber) = 11 /\ ~HasPrefixUS(publicationNumber)
    THEN <<"U", "S">> \o publicationNumber \o <<"A", "1">>
    ELSE publicationNumber

\* fmt.Sprintf("applicationMetaData.earliestPublicationNumber:%s", formattedPub)
PublicationQuery(publicationNumber) ==
    <<"applicationMetaData.earliestPublicationNumber:">> \o FormattedPub(publicationNumber)

ErrNotFound(what, number) ==
    [msg |-> "no application found for", what |-> what, number |-> number]
ErrNoApplicationNumber(what, number) ==
    [msg |-> "application number not found in response for", what |-> what,
     number |-> number]
\* ErrSearchFailed that formats the cause with %v in place of %w
ErrSearchFailedNoCause(what, number, cause) ==
    [msg |-> "failed to search for", what |-> what, number |-> number]

ErrSearchFailed(what, number, cause) ==
    [msg |-> "failed to search for", what |-> what, number |-> number, cause |-> cause]
ErrUnknownType == [msg |-> "unknown patent number type"]

\* what the search of ResolvePatentNumber is for: "grant number" or
\* "publication number"
What(type) ==
    IF type = PatentNumberTypeGrant THEN "grant number" ELSE "publication number"

\* the application number of a search result that reports a missing
\* application number as a record that was not found
ApplicationNumberOfNoFieldCheck(result, what, number) ==
    IF result.PatentFileWrapperDataBag = NilBag
           \/ Len(result.PatentFileWrapperDataBag.val) = 0
           \/ result.PatentFileWrapperDataBag.val[1].ApplicationNumberText = NilString
    THEN [appNo |-> <<>>, err |-> ErrNotFound(what, number)]
    ELSE [appNo |-> result.PatentFileWrapperDataBag.val[1].ApplicationNumberText.val,
          err |-> ErrNil]

\* the application number of a search result: the part of
\* resolveGrantToApplicationNumber and resolvePublicationToApplicationNumber
\* after a search that succeeded
ApplicationNumberOf(result, what, number) ==
    IF result.PatentFileWrapperDataBag = NilBag
           \/ Len(result.PatentFileWrapperDataBag.val) = 0
    THEN [appNo |-> <<>>, err |-> ErrNotFound(what, number)]
    ELSE IF result.PatentFileWrapperDataBag.val[1].ApplicationNumberText = NilString
    THEN [appNo |-> <<>>, err |-> ErrNoApplicationNumber(what, number)]
    ELSE [appNo |-> result.PatentFileWrapperDataBag.val[1].ApplicationNumberText.val,
          err |-> ErrNil]

\* ToApplicationNumber that hands back the number as it was typed
ToApplicationNumberOriginal(p) == p.Original

\* (*PatentNumber).ToApplicationNumber
ToApplicationNumber(p) ==
    IF p.ApplicationNo # <<>> THEN p.ApplicationNo ELSE p.Normalized

\* RetryWait that counts the attempts from 0
RetryWaitFromZero(delay, att) == delay * att

\* seconds of the time.Sleep after the failed attempt number att (from 0)
RetryWait(delay, att) == delay * (att + 1)

\* ErrFailedAfterRetries that formats the last error with %v in place of %w
ErrFailedAfterRetriesNoCause(lastErr) == [msg |-> "failed after retries"]

\* fmt.Errorf("failed after %d retries: %w", MaxRetries, lastErr)
ErrFailedAfterRetries(lastErr) == Wrap("failed after retries", lastErr)

\* retryableRequest goes round its loop once more after a failed attempt;
\* with one round too many
AnotherAttemptOffByOne(att, max) == att <= max

\* retryableRequest goes round its loop once more after a failed attempt
\* number att (attempt++ and attempt <= MaxRetries)
AnotherAttempt(att, max) == att < max

-----------------------------------------------------------------------------
(* Bulk file download: DownloadBulkFileWithProgress                        *)

\* strings.HasPrefix
HasPrefix(s, prefix) == Len(s) >= Len(prefix) /\ SubSeq(s, 1, Len(prefix)) = prefix

\* "https://api.uspto.gov/api/v1/datasets/products/files/"
expectedPrefix ==
    <<"h", "t", "t", "p", "s", ":", "/", "/", "a", "p", "i", ".",
      "u", "s", "p", "t", "o", ".", "g", "o", "v", "/", "a", "p",
      "i", "/", "v", "1", "/", "d", "a", "t", "a", "s", "e", "t",
      "s", "/", "p", "r", "o", "d", "u", "c", "t", "s", "/", "f",
      "i", "l", "e", "s", "/">>

ErrEmptyURI == [msg |-> "fileDownloadURI cannot be empty"]
ErrInvalidURI(got) == [msg |-> "invalid FileDownloadURI: must start with", got |-> got]

\* validateFileDownloadURI that only refuses the empty URL
validateFileDownloadURINotEmpty(fileDownloadURI) ==
    IF fileDownloadURI = <<>> THEN ErrEmptyURI ELSE ErrNil

\* validateFileDownloadURI: the error it returns, ErrNil for nil
validateFileDownloadURI(fileDownloadURI) ==
    IF fileDownloadURI = <<>> THEN ErrEmptyURI
    ELSE IF ~HasPrefix(fileDownloadURI, expectedPrefix) THEN ErrInvalidURI(fileDownloadURI)
    ELSE ErrNil

\* the GET request of the download; the X-API-Key header is set only for a
\* configured key
DownloadRequest(url, key) ==
    [URL |-> url, Header |-> IF key # "" THEN [XAPIKey |-> key] ELSE [none |-> TRUE]]

\* outcomes of httpClient.Do: an error, a status other than 200, or a 200
\* whose body delivers the chunks of Body and then ends with End: "EOF", or
\* "error" for a read that fails; ContentLength is -1 when it is unknown
NoResponse == [kind |-> "none"]
BodyResponse(contentLength, chunks, end) ==
    [kind |-> "status", code |-> 200, ContentLength |-> contentLength,
     Body |-> chunks, End |-> end]

ErrReadBody == [msg |-> "unexpected EOF"]
ErrWriteW == [msg |-> "write failed"]
ErrDownloadStatus(code) == [msg |-> "download failed with status", code |-> code]
ErrIncomplete(got, expected) ==
    [msg |-> "incomplete download", got |-> got, expected |-> expected]

\* the bytes of a sequence of chunks
RECURSIVE Concat(_)
Concat(chunks) ==
    IF chunks = <<>> THEN <<>> ELSE Head(chunks) \o Concat(Tail(chunks))

\* io.Copy(w, resp.Body) on a w that accepts cap more Write calls: the bytes
\* it writes and the error it returns
CopyBody(chunks, end, cap) ==
    IF Len(chunks) > cap
    THEN [bytes |-> Concat(SubSeq(chunks, 1, cap)), err |-> ErrWriteW]
    ELSE [bytes |-> Concat(chunks),
          err |-> IF end = "error" THEN ErrReadBody ELSE ErrNil]

\* AfterCopy without the comparison with the expected size
AfterCopyNoSizeCheck(copyErr, copied, expectedSize) ==
    IF copyErr # ErrNil THEN Wrap("writing file data", copyErr) ELSE ErrNil

\* the end of DownloadBulkFileWithProgress, after io.Copy has returned
AfterCopy(copyErr, copied, expectedSize) ==
    IF copyErr # ErrNil THEN Wrap("writing file data", copyErr)
    ELSE IF expectedSize > 0 /\ copied # expectedSize
    THEN ErrIncomplete(copied, expectedSize)
    ELSE ErrNil

\* a *PatentDataResponse: nil, or the JSON200 of an application-data response
NilPatent == [nil |-> TRUE]

-----------------------------------------------------------------------------
(* The values of the variables a specification does not use                *)

NotCalled == [called |-> FALSE]
IdleFormat == formatter = "" /\ formatted = <<>> /\ second = NotCalled
IdleNorm == input = <<>> /\ pn = NilPN /\ IdleFormat
IdleExtract ==
    /\ claim = NilClaim
    /\ text = <<>>
    /\ fn = ""
    /\ texts = NilStrings
    /\ panicked = FALSE
IdleParse == data = <<>> /\ expectedType = DocumentTypeUnknown /\ doc = NilDoc
IdleClient ==
    /\ maxRetries = DefaultMaxRetries
    /\ retryDelay = DefaultRetryDelay
    /\ query = <<>>
    /\ attempt = 0
    /\ requests = <<>>
    /\ responses = <<>>
    /\ sleeps = <<>>
    /\ searchCalls = 0
    /\ appNo = <<>>
    /\ ctxErr = ErrNil

IdleGet == dataRequests = <<>> /\ dataResponses = <<>> /\ patent = NilPatent
IdleDownload ==
    /\ uri = <<>>
    /\ apiKey = ""
    /\ progress = FALSE
    /\ wCap = 0
    /\ sent = <<>>
    /\ response = NoResponse
    /\ respBody = <<>>
    /\ bodyClosed = FALSE
    /\ gpc = "none"
    /\ pipe = <<>>
    /\ hand = <<>>
    /\ written = 0
    /\ progressCalls = <<>>
    /\ w = <<>>
    /\ wWrites = 0
    /\ bytesWritten = 0

-----------------------------------------------------------------------------
(* Inputs of the normaliser                                                *)

\* longest run of digits in a generated input
MaxDigits == 12

BaseDigits == <<"1", "7", "2", "4", "8", "0", "2", "4", "6", "9", "3", "5", "1", "0">>

Digits(from, n) == SubSeq(BaseDigits, from, from + n - 1)

Prefixes == { <<>>, <<"U", "S">>, <<"U", "S", " ">>, <<"u", "s">> }

Seps == { <<>>, <<",">>, <<" ">>, <<"/">>, <<",", " ">> }

Suffixes == { <<>>, <<" ", "B", "2">>, <<"A", "1">>, <<" ", "b", "2">> }

Pads == { <<>>, <<" ">> }

\* a single run of digits with optional prefix, kind code and padding
PlainInputs ==
    { pad \o p \o Digits(1, n) \o k \o pad :
        pad \in Pads, p \in Prefixes, n \in 0..MaxDigits, k \in Suffixes }

\* two or three groups of digits with separators
GroupedInputs ==
    { pad \o p \o Digits(1, n1) \o s1 \o Digits(n1 + 1, n2)
          \o s2 \o Digits(n1 + n2 + 1, n3) \o k \o pad :
        pad \in Pads, p \in Prefixes, n1 \in {1, 2, 4}, s1 \in Seps,
        n2 \in {3, 7}, s2 \in Seps \ {<<"/">>, <<",", " ">>}, n3 \in {0, 3},
        k \in Suffixes }

NormInputs ==
    PlainInputs \cup GroupedInputs
        \cup { <<"a", "b", "c", "1", "2", "3">>,
               <<"p", "a", "t", "e", "n", "t", "1", "2", "3">> }

-----------------------------------------------------------------------------
(* Specification of the normaliser                                         *)

InitNorm ==
    /\ pc = "call"
    /\ input \in NormInputs
    /\ pn = NilPN
    /\ IdleFormat
    /\ err = ErrNil
    /\ IdleExtract
    /\ IdleParse
    /\ IdleClient
    /\ IdleGet
    /\ IdleDownload

Normalize ==
    /\ pc = "call"
    /\ LET r == NormalizePatentNumber(input) IN
         /\ pn' = r.pn
         /\ err' = r.err
    /\ pc' = "done"
    /\ UNCHANGED <<input, formatVars, extractVars, parseVars, configVars,
                   getVars, downloadVars, clientVars>>

\* a formatter is called on the PatentNumber the normaliser returned; the
\* receiver is read only
FormatAsApplicationCall ==
    /\ pc = "done"
    /\ pn # NilPN
    /\ formatter' = "FormatAsApplication"
    /\ formatted' = FormatAsApplication(pn)
    /\ UNCHANGED <<pc, err, input, pn, second, extractVars, parseVars, configVars,
                   getVars, downloadVars,
                   clientVars>>

FormatAsGrantCall ==
    /\ pc = "done"
    /\ pn # NilPN
    /\ formatter' = "FormatAsGrant"
    /\ formatted' = FormatAsGrant(pn)
    /\ UNCHANGED <<pc, err, input, pn, second, extractVars, parseVars, configVars,
                   getVars, downloadVars,
                   clientVars>>

FormatAsPublicationCall ==
    /\ pc = "done"
    /\ pn # NilPN
    /\ formatter' = "FormatAsPublication"
    /\ formatted' = FormatAsPublication(pn)
    /\ UNCHANGED <<pc, err, input, pn, second, extractVars, parseVars, configVars,
                   getVars, downloadVars,
                   clientVars>>

\* NormalizePatentNumber(pn.Normalized): the canonical form is normalised again
NormalizeAgain ==
    /\ pc = "done"
    /\ pn # NilPN
    /\ second = NotCalled
    /\ LET r == NormalizePatentNumber(pn.Normalized) IN
         second' = [called |-> TRUE, pn |-> r.pn, err |-> r.err]
    /\ UNCHANGED <<pc, err, input, pn, formatter, formatted, extractVars, parseVars,
                   configVars, getVars, downloadVars, clientVars>>

NextNorm ==
    \/ Normalize
    \/ FormatAsApplicationCall
    \/ FormatAsGrantCall
    \/ FormatAsPublicationCall
    \/ NormalizeAgain

SpecNorm == InitNorm /\ [][NextNorm]_vars

-----------------------------------------------------------------------------
(* Specification of the extraction                                         *)

InitExtract ==
    /\ pc = "call"
    /\ err = ErrNil
    /\ claim \in ExtractInputs
    /\ text = <<>>
    /\ fn = ""
    /\ texts = NilStrings
    /\ panicked = FALSE
    /\ IdleNorm
    /\ IdleParse
    /\ IdleClient
    /\ IdleGet
    /\ IdleDownload

ExtractClaimTextCall ==
    /\ pc = "call"
    /\ text' = ExtractClaimText(claim)
    /\ fn' = "ExtractClaimText"
    /\ pc' = "done"
    /\ UNCHANGED <<err, claim, texts, panicked, normVars, parseVars, configVars,
                   getVars, downloadVars,
                   clientVars>>

NextExtract == ExtractClaimTextCall

SpecExtract == InitExtract /\ [][NextExtract]_vars

-----------------------------------------------------------------------------
(* Specification of the extraction from the sections of a document         *)

\* largest number of claims of a claims section, and of paragraphs of an
\* abstract and of headings and paragraphs of a description
MaxClaims == 2
MaxParagraphs == 3

Nums == { <<>>, <<"0", "0", "0", "0", "2">>, <<"x">>, <<"3", "b">>, <<"-", "1">>,
          <<" ", "4">> }

ClaimBodies ==
    { <<ClaimText(<<" ">>, <<>>)>>,
      <<ClaimText(<<"a">>, <<>>)>>,
      <<ClaimText(<<" ", "b", "\t">>, <<ClaimText(<<"a">>, <<>>)>>)>> }

ClaimLists ==
    UNION { [1..n -> { Claim(num, body) : num \in Nums, body \in ClaimBodies }] :
                n \in 0..MaxClaims }

ParagraphTexts == { <<>>, <<"a">>, <<" ", "b", "\n">> }

HeadingTexts == { <<>>, <<"H">>, <<"\n", "G", " ">> }

ParagraphLists ==
    UNION { [1..n -> { Paragraph(t) : t \in ParagraphTexts }] : n \in 0..MaxParagraphs }

\* the children of a description element in the order of the source
DescriptionChildren ==
    UNION { [1..n -> { [tag |-> "heading", Text |-> t] : t \in HeadingTexts }
                        \cup { [tag |-> "p", Text |-> t] : t \in ParagraphTexts }] :
                n \in 0..MaxParagraphs }

InventionTitles ==
    { <<>>, <<Text(<<" ", "T", " ">>)>>, <<Text(<<"T">>), Text(<<"a">>)>> }

\* the elements with one section at most, each with the children of its
\* description element as the source had them
PatentElements(name) ==
    { [children |-> <<>>, element |-> e] :
        e \in { PatentElement(name, NilSection, NilSection, NilSection, NilSection) }
            \cup { PatentElement(name, Bibliography(t), NilSection, NilSection,
                                    NilSection) : t \in InventionTitles }
            \cup { PatentElement(name, NilSection, Abstract(ps), NilSection,
                                    NilSection) : ps \in ParagraphLists }
            \cup { PatentElement(name, NilSection, NilSection, NilSection,
                                    Claims(cl)) : cl \in ClaimLists } }
        \cup { [children |-> cs,
                element |-> PatentElement(name, NilSection, NilSection,
                                          DecodeDescription(cs), NilSection)] :
                  cs \in DescriptionChildren }

DocumentInputs ==
    { [children |-> <<>>, doc |-> d] : d \in {NilDoc, XMLDocument(NilElement, NilElement)} }
        \cup { [children |-> g.children, doc |-> XMLDocument(g.element, NilElement)] :
                  g \in PatentElements(GrantRoot) }
        \cup { [children |-> a.children, doc |-> XMLDocument(NilElement, a.element)] :
                  a \in PatentElements(ApplicationRoot) }

\* data holds the children of the description element the document was
\* decoded from
InitSections ==
    /\ pc = "call"
    /\ err = ErrNil
    /\ \E in \in DocumentInputs :
          /\ data = in.children
          /\ doc = in.doc
    /\ expectedType = DocumentTypeUnknown
    /\ IdleExtract
    /\ IdleNorm
    /\ IdleClient
    /\ IdleGet
    /\ IdleDownload

\* the calls of the functions of the document
GetTitleCall ==
    /\ pc = "call"
    /\ fn' = "GetTitle"
    /\ IF NilDereference(doc)
       THEN panicked' = TRUE /\ UNCHANGED text
       ELSE text' = GetTitle(doc) /\ UNCHANGED panicked
    /\ pc' = "done"
    /\ UNCHANGED <<err, claim, texts, normVars, parseVars, configVars,
                   getVars, downloadVars, clientVars>>

ExtractAbstractTextCall ==
    /\ pc = "call"
    /\ fn' = "ExtractAbstractText"
    /\ IF NilDereference(doc)
       THEN panicked' = TRUE /\ UNCHANGED text
       ELSE text' = ExtractAbstractText(GetAbstract(doc)) /\ UNCHANGED panicked
    /\ pc' = "done"
    /\ UNCHANGED <<err, claim, texts, normVars, parseVars, configVars,
                   getVars, downloadVars, clientVars>>

ExtractDescriptionTextCall ==
    /\ pc = "call"
    /\ fn' = "ExtractDescriptionText"
    /\ IF NilDereference(doc)
       THEN panicked' = TRUE /\ UNCHANGED text
       ELSE text' = ExtractDescriptionText(GetDescription(doc)) /\ UNCHANGED panicked
    /\ pc' = "done"
    /\ UNCHANGED <<err, claim, texts, normVars, parseVars, configVars,
                   getVars, downloadVars, clientVars>>

ExtractAllClaimsTextCall ==
    /\ pc = "call"
    /\ fn' = "ExtractAllClaimsText"
    /\ IF NilDereference(doc)
       THEN panicked' = TRUE /\ UNCHANGED texts
       ELSE texts' = ExtractAllClaimsText(GetClaims(doc)) /\ UNCHANGED panicked
    /\ pc' = "done"
    /\ UNCHANGED <<err, claim, text, normVars, parseVars, configVars,
                   getVars, downloadVars, clientVars>>

ExtractAllClaimsTextFormattedCall ==
    /\ pc = "call"
    /\ fn' = "ExtractAllClaimsTextFormatted"
    /\ IF NilDereference(doc)
       THEN panicked' = TRUE /\ UNCHANGED text
       ELSE text' = ExtractAllClaimsTextFormatted(GetClaims(doc)) /\ UNCHANGED panicked
    /\ pc' = "done"
    /\ UNCHANGED <<err, claim, texts, normVars, parseVars, configVars,
                   getVars, downloadVars, clientVars>>

\* ExtractClaimText of a *Claim that is nil
ExtractNilClaimTextCall ==
    /\ pc = "call"
    /\ fn' = "ExtractClaimText"
    /\ claim' = NilClaim
    /\ text' = ExtractClaimText(NilClaim)
    /\ pc' = "done"
    /\ UNCHANGED <<err, texts, panicked, normVars, parseVars, configVars,
                   getVars, downloadVars, clientVars>>

NextSections ==
    \/ GetTitleCall
    \/ ExtractAbstractTextCall
    \/ ExtractDescriptionTextCall
    \/ ExtractAllClaimsTextCall
    \/ ExtractAllClaimsTextFormattedCall
    \/ ExtractNilClaimTextCall

SpecSections == InitSections /\ [][NextSections]_vars

-----------------------------------------------------------------------------
(* Specification of the parser                                             *)

\* longest input of the parser, in tokens
MaxTokens == 4

\* a DocumentType that is none of the three constants
InvalidDocumentType == 3

DocumentTypes == { DocumentTypeUnknown, DocumentTypeGrant, DocumentTypeApplication,
                   InvalidDocumentType }

ParseInputs == UNION { [1..n -> Tokens] : n \in 0..MaxTokens }

InitParse ==
    /\ pc = "call"
    /\ err = ErrNil
    /\ data \in ParseInputs
    /\ expectedType = DocumentTypeUnknown
    /\ doc = NilDoc
    /\ IdleNorm
    /\ IdleExtract
    /\ IdleClient
    /\ IdleGet
    /\ IdleDownload

Parse(expected) ==
    /\ pc = "call"
    /\ expectedType' = expected
    /\ LET r == ParseXMLWithType(data, expected) IN
         /\ doc' = r.doc
         /\ err' = r.err
    /\ pc' = "done"
    /\ UNCHANGED <<data, normVars, extractVars, configVars,
                   getVars, downloadVars, clientVars>>

ParseXML == Parse(DocumentTypeUnknown)

ParseGrantXML == Parse(DocumentTypeGrant)

ParseApplicationXML == Parse(DocumentTypeApplication)

ParseXMLWithTypeCall == \E expected \in DocumentTypes : Parse(expected)

NextParse ==
    \/ ParseXML
    \/ ParseGrantXML
    \/ ParseApplicationXML
    \/ ParseXMLWithTypeCall

SpecParse == InitParse /\ [][NextParse]_vars

-----------------------------------------------------------------------------
(* Specification of the resolver                                           *)

\* largest Config.MaxRetries and Config.RetryDelay of the model
MaxRetriesCap == 3
MaxRetryDelay == 2

ApplicationNumbers == { StringPtr(Digits(1, 8)), StringPtr(Digits(3, 8)) }

Bags ==
    { NilBag, BagPtr(<<>>) }
        \cup { BagPtr(<<PatentRecord(a)>>) : a \in ApplicationNumbers \cup {NilString} }
        \cup { BagPtr(<<PatentRecord(NilString), PatentRecord(StringPtr(Digits(1, 8)))>>),
               BagPtr(<<PatentRecord(StringPtr(Digits(3, 8))),
                        PatentRecord(StringPtr(Digits(1, 8)))>>) }

Responses ==
    { TransportError, StatusResponse(500), StatusResponse(404) }
        \cup { OKResponse(b) : b \in Bags }

ResolveInputs ==
    { <<"U", "S", " ">> \o Digits(1, 2) \o <<",">> \o Digits(3, 3) \o <<",">>
          \o Digits(6, 3) \o <<" ", "B", "2">>,
      Digits(1, 1) \o <<",">> \o Digits(2, 3) \o <<",">> \o Digits(5, 3),
      Digits(1, 7),
      <<"U", "S">> \o Digits(1, 11) \o <<"A", "1">>,
      <<"U", "S">> \o Digits(1, 11),
      Digits(1, 4) \o <<"/">> \o Digits(5, 7),
      Digits(1, 2) \o <<"/">> \o Digits(3, 3) \o <<",">> \o Digits(6, 3),
      Digits(1, 8),
      <<"a", "b", "c", "1", "2", "3">>,
      <<>> }

InitResolve ==
    /\ pc = "call"
    /\ err = ErrNil
    /\ input \in ResolveInputs
    /\ pn = NilPN
    /\ IdleFormat
    /\ maxRetries \in 0..MaxRetriesCap
    /\ retryDelay \in 1..MaxRetryDelay
    /\ query = <<>>
    /\ attempt = 0
    /\ requests = <<>>
    /\ responses = <<>>
    /\ sleeps = <<>>
    /\ searchCalls = 0
    /\ appNo = <<>>
    /\ ctxErr = ErrNil
    /\ IdleGet
    /\ IdleDownload
    /\ IdleExtract
    /\ IdleParse

\* ResolvePatentNumber up to its return or to the first request of the
\* search it starts
ResolvePatentNumber ==
    /\ pc = "call"
    /\ LET r == NormalizePatentNumber(input) IN
         /\ pn' = r.pn
         /\ IF r.err # ErrNil
            THEN /\ err' = Wrap("invalid patent number", r.err)
                 /\ pc' = "done"
                 /\ UNCHANGED <<query, searchCalls, appNo>>
            ELSE IF r.pn.Type \in {PatentNumberTypeGrant, PatentNumberTypePublication}
            THEN /\ query' = IF r.pn.Type = PatentNumberTypeGrant
                             THEN GrantQuery(r.pn.Normalized)
                             ELSE PublicationQuery(r.pn.Normalized)
                 /\ searchCalls' = searchCalls + 1
                 /\ IF 0 <= maxRetries
                    THEN pc' = "request" /\ UNCHANGED err
                    ELSE /\ pc' = "done"
                         /\ err' = ErrSearchFailed(What(r.pn.Type), r.pn.Normalized,
                                       ErrFailedAfterRetries(ErrNil))
                 /\ UNCHANGED appNo
            ELSE IF r.pn.Type = PatentNumberTypeApplication
            THEN /\ appNo' = ToApplicationNumber(r.pn)
                 /\ pc' = "done"
                 /\ UNCHANGED <<err, query, searchCalls>>
            ELSE /\ err' = ErrUnknownType
                 /\ pc' = "done"
                 /\ UNCHANGED <<query, searchCalls, appNo>>
    /\ attempt' = 0
    /\ UNCHANGED <<input, formatVars, requests, responses, sleeps, ctxErr, configVars,
                   getVars, downloadVars,
                   extractVars,
                   parseVars>>

\* the caller cancels the context, or its deadline passes, while a request
\* loop is under way: during a request or during the sleep between two
\* requests, of the search or of GetPatent
ContextDone ==
    /\ pc \in {"request", "sleep", "get", "getsleep"}
    /\ ctxErr = ErrNil
    /\ ctxErr' \in {ErrCanceled, ErrDeadlineExceeded}
    /\ UNCHANGED <<pc, err, query, attempt, requests, responses, sleeps, searchCalls,
                   appNo, normVars, configVars,
                   getVars, downloadVars, extractVars, parseVars>>

\* one call of fn by retryableRequest: the request is sent and answered, or
\* given up with the context's error when the context is done; on success
\* SearchPatents returns and the resolver finishes, on failure the loop goes
\* on or gives up
SearchAttempt ==
    /\ pc = "request"
    /\ \E resp \in (IF ctxErr # ErrNil THEN {ContextError(ctxErr)} ELSE Responses) :
         /\ requests' = Append(requests, PatentSearchRequest(query, 0, 1))
         /\ responses' = Append(responses, resp)
         /\ IF RequestError(resp) = ErrNil
            THEN LET r == ApplicationNumberOf(resp, What(pn.Type), pn.Normalized) IN
                 /\ appNo' = r.appNo
                 /\ err' = r.err
                 /\ pc' = "done"
            ELSE IF AnotherAttempt(attempt, maxRetries)
            THEN /\ pc' = "sleep"
                 /\ UNCHANGED <<appNo, err>>
            ELSE /\ err' = ErrSearchFailed(What(pn.Type), pn.Normalized,
                               ErrFailedAfterRetries(RequestError(resp)))
                 /\ pc' = "done"
                 /\ UNCHANGED appNo
    /\ UNCHANGED <<query, attempt, sleeps, searchCalls, ctxErr, normVars, configVars,
                   getVars, downloadVars,
                   extractVars, parseVars>>

\* time.Sleep between two attempts, and attempt++
RetrySleep ==
    /\ pc = "sleep"
    /\ sleeps' = Append(sleeps, RetryWait(retryDelay, attempt))
    /\ attempt' = attempt + 1
    /\ pc' = "request"
    /\ UNCHANGED <<err, query, requests, responses, searchCalls, appNo, ctxErr,
                   normVars, configVars,
                   getVars, downloadVars, extractVars, parseVars>>

NextResolve ==
    \/ ResolvePatentNumber
    \/ ContextDone
    \/ SearchAttempt
    \/ RetrySleep

SpecResolve == InitResolve /\ [][NextResolve]_vars

-----------------------------------------------------------------------------
(* Specification of GetPatent                                              *)

\* the JSON200 of an application-data response
PatentData(applicationNumber) == [nil |-> FALSE, applicationNumberText |-> applicationNumber]

\* outcomes of the application-data request for an application number
DataResponses(applicationNumber) ==
    { TransportError, StatusResponse(404),
      [kind |-> "status", code |-> 200, JSON200 |-> PatentData(applicationNumber)] }

\* identifiers given to GetPatent: the three of the README, an application
\* of 8 bare digits, and two that are not patent numbers
GetPatentInputs ==
    { <<"U", "S", " ">> \o Digits(1, 2) \o <<",">> \o Digits(3, 3) \o <<",">>
          \o Digits(6, 3) \o <<" ", "B", "2">>,
      <<"U", "S">> \o Digits(1, 11) \o <<"A", "1">>,
      Digits(1, 2) \o <<"/">> \o Digits(3, 3) \o <<",">> \o Digits(6, 3),
      Digits(1, 8),
      <<"a", "b", "c", "1", "2", "3">>,
      <<>> }

InitGetPatent ==
    /\ pc = "call"
    /\ err = ErrNil
    /\ input \in GetPatentInputs
    /\ pn = NilPN
    /\ IdleFormat
    /\ maxRetries \in 0..MaxRetriesCap
    /\ retryDelay = DefaultRetryDelay
    /\ query = <<>>
    /\ attempt = 0
    /\ requests = <<>>
    /\ responses = <<>>
    /\ sleeps = <<>>
    /\ searchCalls = 0
    /\ appNo = <<>>
    /\ ctxErr = ErrNil
    /\ IdleGet
    /\ IdleDownload
    /\ IdleExtract
    /\ IdleParse

\* GetPatentStep that goes on to the request whatever the resolver returned
GetPatentStepIgnoringError(resolveErr) == "get"

\* where GetPatent goes once ResolvePatentNumber has returned resolveErr: to
\* its own return, or on to the application-data request
GetPatentStep(resolveErr) == IF resolveErr # ErrNil THEN "returned" ELSE "get"

\* GetPatent from the return of its call of ResolvePatentNumber to the first
\* application-data request
GetPatent ==
    /\ pc = "done"
    /\ IF GetPatentStep(err) = "returned"
       THEN /\ pc' = "returned"
            /\ UNCHANGED <<err, attempt>>
       ELSE /\ attempt' = 0
            /\ IF 0 <= maxRetries
               THEN pc' = "get" /\ UNCHANGED err
               ELSE pc' = "returned" /\ err' = ErrFailedAfterRetries(ErrNil)
    /\ UNCHANGED <<query, requests, responses, sleeps, searchCalls, appNo, ctxErr,
                   normVars, configVars, getVars, downloadVars, extractVars, parseVars>>

\* one call of fn by the retryableRequest of GetPatent: the application-data
\* request for the resolved number is sent and answered
DataAttempt ==
    /\ pc = "get"
    /\ \E resp \in (IF ctxErr # ErrNil THEN {ContextError(ctxErr)}
                    ELSE DataResponses(appNo)) :
         /\ dataRequests' = Append(dataRequests, appNo)
         /\ dataResponses' = Append(dataResponses, resp)
         /\ IF RequestError(resp) = ErrNil
            THEN /\ patent' = resp.JSON200
                 /\ pc' = "returned"
                 /\ UNCHANGED err
            ELSE IF AnotherAttempt(attempt, maxRetries)
            THEN /\ pc' = "getsleep"
                 /\ UNCHANGED <<patent, err>>
            ELSE /\ err' = ErrFailedAfterRetries(RequestError(resp))
                 /\ pc' = "returned"
                 /\ UNCHANGED patent
    /\ UNCHANGED <<query, attempt, requests, responses, sleeps, searchCalls, appNo,
                   ctxErr, normVars, configVars, downloadVars, extractVars, parseVars>>

\* time.Sleep between two attempts of the application-data request
DataSleep ==
    /\ pc = "getsleep"
    /\ sleeps' = Append(sleeps, RetryWait(retryDelay, attempt))
    /\ attempt' = attempt + 1
    /\ pc' = "get"
    /\ UNCHANGED <<err, query, requests, responses, searchCalls, appNo, ctxErr,
                   normVars, configVars, getVars, downloadVars, extractVars, parseVars>>

NextGetPatent ==
    \/ ResolvePatentNumber
    \/ ContextDone
    \/ SearchAttempt
    \/ RetrySleep
    \/ GetPatent
    \/ DataAttempt
    \/ DataSleep

SpecGetPatent == InitGetPatent /\ [][NextGetPatent]_vars

-----------------------------------------------------------------------------
(* Specification of the bulk file download                                 *)

\* largest number of chunks of a response body
MaxChunks == 3

\* the i-th chunk of a body: one or two bytes, all different
Chunk(i) == [j \in 1..(1 + ((i + 1) % 2)) |-> 10 * i + j]

FullBody(n) == [i \in 1..n |-> Chunk(i)]

\* a body of n chunks of which k arrive: all of them and then EOF, or fewer
\* and then a failed read; a body of unknown length can also fail after its
\* last chunk
DownloadResponses ==
    { TransportError, StatusResponse(404) }
        \cup { BodyResponse(Len(Concat(FullBody(n))), FullBody(n), "EOF") :
                 n \in 0..MaxChunks }
        \cup { BodyResponse(-1, FullBody(n), "EOF") : n \in 0..MaxChunks }
        \cup UNION { { BodyResponse(Len(Concat(FullBody(n))), FullBody(k), "error") :
                         k \in 0..(n - 1) } : n \in 1..MaxChunks }
        \cup { BodyResponse(-1, FullBody(k), "error") : k \in 0..MaxChunks }

FileName == <<"a", ".", "z", "i", "p">>

URIs ==
    { <<>>,
      expectedPrefix \o FileName,
      expectedPrefix,
      SubSeq(expectedPrefix, 1, Len(expectedPrefix) - 1),
      <<"h", "t", "t", "p">> \o SubSeq(expectedPrefix, 6, Len(expectedPrefix))
          \o FileName,
      <<" ">> \o expectedPrefix \o FileName,
      <<"H">> \o Tail(expectedPrefix) \o FileName,
      FileName }

InitDownload ==
    /\ pc = "call"
    /\ err = ErrNil
    /\ uri \in URIs
    /\ apiKey \in {"", "key"}
    /\ progress \in BOOLEAN
    /\ wCap \in 0..MaxChunks
    /\ sent = <<>>
    /\ response = NoResponse
    /\ respBody = <<>>
    /\ bodyClosed = FALSE
    /\ gpc = "none"
    /\ pipe = <<>>
    /\ hand = <<>>
    /\ written = 0
    /\ progressCalls = <<>>
    /\ w = <<>>
    /\ wWrites = 0
    /\ bytesWritten = 0
    /\ IdleNorm
    /\ IdleExtract
    /\ IdleParse
    /\ IdleClient
    /\ IdleGet

\* DownloadBulkFileWithProgress up to its return or, with a progress
\* callback, up to the start of the reader goroutine; DownloadBulkFile is the
\* call without a callback, which copies the body in the calling goroutine
DownloadBulkFileWithProgress ==
    /\ pc = "call"
    /\ IF validateFileDownloadURI(uri) # ErrNil
       THEN /\ err' = validateFileDownloadURI(uri)
            /\ pc' = "done"
            /\ UNCHANGED <<sent, response, respBody, bodyClosed, gpc, w, wWrites,
                           bytesWritten>>
       ELSE \E resp \in DownloadResponses :
            /\ sent' = Append(sent, DownloadRequest(uri, apiKey))
            /\ response' = resp
            /\ IF resp.kind = "error"
               THEN /\ err' = Wrap("downloading file", RequestError(resp))
                    /\ pc' = "done"
                    /\ UNCHANGED <<respBody, bodyClosed, gpc, w, wWrites, bytesWritten>>
               ELSE IF resp.code # 200
               THEN /\ err' = ErrDownloadStatus(resp.code)
                    /\ bodyClosed' = TRUE
                    /\ pc' = "done"
                    /\ UNCHANGED <<respBody, gpc, w, wWrites, bytesWritten>>
               ELSE IF progress
               THEN /\ respBody' = resp.Body
                    /\ gpc' = "read"
                    /\ pc' = "copy"
                    /\ UNCHANGED <<err, bodyClosed, w, wWrites, bytesWritten>>
               ELSE LET c == CopyBody(resp.Body, resp.End, wCap) IN
                    /\ w' = c.bytes
                    /\ wWrites' = IF Len(resp.Body) > wCap THEN wCap ELSE Len(resp.Body)
                    /\ bytesWritten' = Len(c.bytes)
                    /\ err' = AfterCopy(c.err, Len(c.bytes), resp.ContentLength)
                    /\ bodyClosed' = TRUE
                    /\ pc' = "done"
                    /\ UNCHANGED <<respBody, gpc>>
    /\ UNCHANGED <<uri, apiKey, progress, wCap, pipe, hand, written, progressCalls,
                   normVars, extractVars, parseVars, configVars, getVars, clientVars>>

\* one round of the loop of the reader goroutine: resp.Body.Read, then
\* progress and pw.Write for a chunk, or the return (with the deferred
\* pw.Close) for an error, the end of the body or a body already closed
BodyRead ==
    /\ gpc = "read"
    /\ IF bodyClosed \/ respBody = <<>>
       THEN /\ gpc' = "exit"
            /\ UNCHANGED <<respBody, pipe, written, progressCalls>>
       ELSE /\ written' = written + Len(Head(respBody))
            /\ progressCalls' = Append(progressCalls,
                                       <<written + Len(Head(respBody)),
                                         response.ContentLength>>)
            /\ pipe' = Head(respBody)
            /\ respBody' = Tail(respBody)
            /\ gpc' = "write"
    /\ UNCHANGED <<pc, err, uri, apiKey, progress, wCap, sent, response, bodyClosed,
                   hand, w, wWrites, bytesWritten, normVars, extractVars, parseVars,
                   configVars, getVars, clientVars>>

\* pr.Read of io.Copy: it takes the chunk pw.Write is waiting with, which
\* lets pw.Write return, or it meets the end of a pipe the goroutine closed
\* and io.Copy returns without an error
PipeRead ==
    /\ pc = "copy"
    /\ \/ /\ gpc = "write"
          /\ hand' = pipe
          /\ pipe' = <<>>
          /\ gpc' = "read"
          /\ pc' = "write"
          /\ UNCHANGED <<err, bodyClosed>>
       \/ /\ gpc = "exit"
          /\ err' = AfterCopy(ErrNil, bytesWritten, response.ContentLength)
          /\ bodyClosed' = TRUE
          /\ pc' = "done"
          /\ UNCHANGED <<hand, pipe, gpc>>
    /\ UNCHANGED <<uri, apiKey, progress, wCap, sent, response, respBody, written,
                   progressCalls, w, wWrites, bytesWritten, normVars, extractVars,
                   parseVars, configVars, getVars, clientVars>>

\* w.Write of io.Copy: the chunk is written, or w fails and the function
\* returns; the pipe's read side is never closed
WriteW ==
    /\ pc = "write"
    /\ IF wWrites < wCap
       THEN /\ w' = w \o hand
            /\ wWrites' = wWrites + 1
            /\ bytesWritten' = bytesWritten + Len(hand)
            /\ hand' = <<>>
            /\ pc' = "copy"
            /\ UNCHANGED <<err, bodyClosed>>
       ELSE /\ err' = AfterCopy(ErrWriteW, bytesWritten, response.ContentLength)
            /\ bodyClosed' = TRUE
            /\ pc' = "done"
            /\ UNCHANGED <<w, wWrites, bytesWritten, hand>>
    /\ UNCHANGED <<uri, apiKey, progress, wCap, sent, response, respBody, gpc, pipe,
                   written, progressCalls, normVars, extractVars, parseVars,
                   configVars, getVars, clientVars>>

NextDownload ==
    \/ DownloadBulkFileWithProgress
    \/ BodyRead
    \/ PipeRead
    \/ WriteW

SpecDownload == InitDownload /\ [][NextDownload]_vars

\* the scheduler runs every goroutine that can take a step
FairSpecDownload ==
    /\ SpecDownload
    /\ WF_vars(DownloadBulkFileWithProgress)
    /\ WF_vars(BodyRead)
    /\ WF_vars(PipeRead)
    /\ WF_vars(WriteW)

-----------------------------------------------------------------------------
(* Properties of the normaliser                                            *)

AllDigits(s) == \A i \in 1..Len(s) : s[i] \in Digit

DigitsOf(s) == SelectSeq(s, LAMBDA c : c \in Digit)

\* s without a trailing kind code (one upper-case letter and one digit)
DropKindCode(s) ==
    IF Len(s) >= 2 /\ s[Len(s) - 1] \in Upper /\ s[Len(s)] \in Digit
    THEN SubSeq(s, 1, Len(s) - 2)
    ELSE s

PatternOrder == << grantWithKindPattern, applicationWithSlashPattern,
                   grantWithCommaPattern, publicationPattern >>

PatternType == << PatentNumberTypeGrant, PatentNumberTypeApplication,
                  PatentNumberTypeGrant, PatentNumberTypePublication >>

\* index of the first formatted pattern that matches s, 0 if none does
FirstPattern(s) ==
    IF \E k \in 1..4 : MatchString(PatternOrder[k], s)
    THEN CHOOSE k \in 1..4 :
            /\ MatchString(PatternOrder[k], s)
            /\ \A j \in 1..(k - 1) : ~MatchString(PatternOrder[j], s)
    ELSE 0

Succeeded == pc = "done" /\ err = ErrNil /\ pn # NilPN

\* C1: when one of the formatted patterns (grant with kind code, application
\* with slash, grant with comma, publication, in this order) matches the
\* trimmed input, the first one that matches decides the result: Type is
\* Grant, Application, Grant, Publication respectively and Normalized is the
\* digits of the input without prefix, punctuation and kind code.
C1_FirstPatternDecides ==
    (pc = "done" /\ input # <<>>) =>
        LET cleaned == TrimSpace(input)
            k == FirstPattern(cleaned)
        IN  k > 0 =>
              /\ Succeeded
              /\ pn.Type = PatternType[k]
              /\ pn.Normalized = DigitsOf(DropKindCode(cleaned))

C1_Witness ==
    /\ Succeeded
    /\ FirstPattern(TrimSpace(input)) = 1
    /\ SubSeq(TrimSpace(input), 1, 2) = <<"U", "S">>
    /\ Len(pn.Normalized) = 8

\* C2: a trimmed input made of digits only is classified by its length: 7 is
\* a Grant, 8 and 9 an Application with ApplicationNo set, 11 a Publication,
\* every other length the invalid-length error.
C2_DigitsOnlyByLength ==
    (pc = "done" /\ input # <<>>) =>
        LET cleaned == TrimSpace(input) IN
        (cleaned # <<>> /\ AllDigits(cleaned)) =>
            CASE Len(cleaned) = 7 ->
                   /\ Succeeded
                   /\ pn.Type = PatentNumberTypeGrant
                   /\ pn.Normalized = cleaned
              [] Len(cleaned) \in {8, 9} ->
                   /\ Succeeded
                   /\ pn.Type = PatentNumberTypeApplication
                   /\ pn.Normalized = cleaned
                   /\ pn.ApplicationNo = cleaned
              [] Len(cleaned) = 11 ->
                   /\ Succeeded
                   /\ pn.Type = PatentNumberTypePublication
                   /\ pn.Normalized = cleaned
              [] OTHER ->
                   /\ pn = NilPN
                   /\ err = ErrInvalidLength

C2_Witness ==
    /\ Succeeded
    /\ AllDigits(TrimSpace(input))
    /\ Len(TrimSpace(input)) = 8
    /\ pn.Type = PatentNumberTypeApplication
    /\ pn.ApplicationNo = TrimSpace(input)

\* C9: a successful result has a non-empty Normalized made of digits only,
\* of 11 digits for a Publication and of 7 or 8 digits for a Grant, and its
\* Type is never Unknown.
C9_NormalizedShape ==
    (pc = "done" /\ err = ErrNil) =>
        /\ pn # NilPN
        /\ pn.Normalized # <<>>
        /\ AllDigits(pn.Normalized)
        /\ pn.Type = PatentNumberTypePublication => Len(pn.Normalized) = 11
        /\ pn.Type = PatentNumberTypeGrant => Len(pn.Normalized) \in {7, 8}
        /\ pn.Type # PatentNumberTypeUnknown

C9_Witness ==
    /\ Succeeded
    /\ pn.Type = PatentNumberTypeGrant
    /\ Len(pn.Normalized) = 7
    /\ Len(TrimSpace(input)) > 7

\* C10: a successful Application result has ApplicationNo = Normalized, a
\* successful Grant or Publication result has an empty ApplicationNo.
C10_ApplicationNo ==
    (pc = "done" /\ err = ErrNil) =>
        /\ pn # NilPN
        /\ pn.Type = PatentNumberTypeApplication => pn.ApplicationNo = pn.Normalized
        /\ pn.Type \in {PatentNumberTypeGrant, PatentNumberTypePublication}
              => pn.ApplicationNo = <<>>

C10_Witness ==
    /\ Succeeded
    /\ pn.Type = PatentNumberTypePublication
    /\ pn.ApplicationNo = <<>>
    /\ Len(TrimSpace(input)) > 11

\* C11: NormalizePatentNumber returns an error and no PatentNumber for the
\* empty input (the empty-input error) and for every input whose trimmed form
\* matches none of the formatted patterns and is not a non-empty run of
\* digits (the unrecognized-format error).
C11_ErrorInputs ==
    pc = "done" =>
        LET cleaned == TrimSpace(input) IN
        /\ input = <<>> =>
              /\ pn = NilPN
              /\ err = [msg |-> "patent number cannot be empty"]
        /\ (/\ input # <<>>
            /\ FirstPattern(cleaned) = 0
            /\ ~(cleaned # <<>> /\ AllDigits(cleaned))) =>
              /\ pn = NilPN
              /\ err = [msg |-> "unrecognized patent number format"]

C11_Witness ==
    /\ pc = "done"
    /\ input = <<"p", "a", "t", "e", "n", "t", "1", "2", "3">>
    /\ pn = NilPN
    /\ err = ErrUnrecognized

-----------------------------------------------------------------------------
(* Properties of the extraction                                            *)

\* the Text of every claim-text element, a node before its nested nodes and
\* the nodes of a list from left to right
RECURSIVE DocumentOrder(_)
DocumentOrder(claimTexts) ==
    IF claimTexts = <<>>
    THEN <<>>
    ELSE <<Head(claimTexts).Text>> \o DocumentOrder(Head(claimTexts).NestedClaims)
             \o DocumentOrder(Tail(claimTexts))

RECURSIVE JoinWithSpace(_)
JoinWithSpace(fragments) ==
    IF fragments = <<>> THEN <<>>
    ELSE IF Len(fragments) = 1 THEN fragments[1]
    ELSE fragments[1] \o <<" ">> \o JoinWithSpace(Tail(fragments))

TrimmedFragments(claimTexts) ==
    SelectSeq([i \in 1..Len(DocumentOrder(claimTexts)) |->
                  TrimSpace(DocumentOrder(claimTexts)[i])],
              LAMBDA f : f # <<>>)

RECURSIVE NestingDepth(_)
NestingDepth(claimTexts) ==
    IF claimTexts = <<>>
    THEN 0
    ELSE LET here == 1 + NestingDepth(Head(claimTexts).NestedClaims)
             rest == NestingDepth(Tail(claimTexts))
         IN  IF here > rest THEN here ELSE rest

\* C3: ExtractClaimText returns the trimmed, non-empty texts of all
\* claim-text nodes in document order (a node before its nested nodes, left
\* to right), each exactly once, joined by single spaces; nodes with empty
\* text contribute nothing.
C3_ClaimTextDocumentOrder ==
    (pc = "done" /\ claim # NilClaim) =>
        text = JoinWithSpace(TrimmedFragments(claim.ClaimText))

C3_Witness ==
    /\ pc = "done"
    /\ claim # NilClaim
    /\ NestingDepth(claim.ClaimText) >= 3
    /\ Len(TrimmedFragments(claim.ClaimText)) >= 2
    /\ Len(TrimmedFragments(claim.ClaimText)) < Len(DocumentOrder(claim.ClaimText))
    /\ text # <<>>

-----------------------------------------------------------------------------
(* Properties of the parser                                                *)

\* toks without its first start tag that is directly followed by its end tag
RECURSIVE RemoveFirstPair(_)
RemoveFirstPair(toks) ==
    IF Len(toks) < 2 THEN toks
    ELSE IF /\ toks[1].kind = "start"
            /\ toks[2].kind = "end"
            /\ toks[1].name = toks[2].name
         THEN SubSeq(toks, 3, Len(toks))
    ELSE <<toks[1]>> \o RemoveFirstPair(Tail(toks))

\* toks is a sequence of complete, properly nested elements
RECURSIVE BalancedContent(_)
BalancedContent(toks) ==
    \/ toks = <<>>
    \/ /\ RemoveFirstPair(toks) # toks
       /\ BalancedContent(RemoveFirstPair(toks))

\* toks[1..n] is one complete element named name
ElementUpTo(toks, n, name) ==
    /\ toks[1] = StartTag(name)
    /\ toks[n] = EndTag(name)
    /\ BalancedContent(SubSeq(toks, 2, n - 1))

\* the input is a well-formed document: one complete element and no more
WellFormed(toks) ==
    /\ Len(toks) >= 2
    /\ \E name \in ElementNames : ElementUpTo(toks, Len(toks), name)

\* the input starts with a complete element named name
StartsWithElement(toks, name) ==
    \E n \in 2..Len(toks) : ElementUpTo(toks, n, name)

RootOf(type) == IF type = DocumentTypeGrant THEN GrantRoot ELSE ApplicationRoot

OtherRootOf(type) == IF type = DocumentTypeGrant THEN ApplicationRoot ELSE GrantRoot

IsMismatchError(e, expected, actual) ==
    \/ e = ErrRootElement(expected, actual)
    \/ /\ "cause" \in DOMAIN e
       /\ e.cause = ErrElementType(expected, actual)

IsMalformedError(e) ==
    /\ "cause" \in DOMAIN e
    /\ e.cause \in { ErrSyntax, ErrEOF }

\* C6: with expected kind Grant (Application), ParseXMLWithType fails with a
\* mismatch error that carries the expected and the actual root for a
\* well-formed document of the other grammar, fails with a malformed-XML
\* error for a structurally invalid input, and returns no document in
\* either case.
C6_MismatchAndMalformed ==
    (pc = "done" /\ expectedType \in {DocumentTypeGrant, DocumentTypeApplication}) =>
        /\ (WellFormed(data) /\ data[1].name = OtherRootOf(expectedType)) =>
              /\ IsMismatchError(err, RootOf(expectedType), OtherRootOf(expectedType))
              /\ doc = NilDoc
        /\ ~WellFormed(data) =>
              /\ IsMalformedError(err)
              /\ doc = NilDoc

\* C7: ParseXML returns a Grant document when the input decodes as a
\* us-patent-grant element, otherwise an Application document when it
\* decodes as a us-patent-application element, and otherwise fails with
\* the unrecognized-document-type error and returns no document.
C7_AutoDetectOrder ==
    (pc = "done" /\ expectedType = DocumentTypeUnknown) =>
        IF StartsWithElement(data, GrantRoot)
        THEN /\ err = ErrNil
             /\ doc # NilDoc
             /\ doc.Grant # NilElement
             /\ doc.Grant.XMLName = GrantRoot
             /\ doc.Application = NilElement
        ELSE IF StartsWithElement(data, ApplicationRoot)
        THEN /\ err = ErrNil
             /\ doc # NilDoc
             /\ doc.Application # NilElement
             /\ doc.Application.XMLName = ApplicationRoot
             /\ doc.Grant = NilElement
        ELSE /\ err = ErrUnrecognizedDocument
             /\ doc = NilDoc

C7_Witness ==
    /\ pc = "done"
    /\ expectedType = DocumentTypeUnknown
    /\ WellFormed(data)
    /\ Len(data) = 4
    /\ err = ErrNil
    /\ doc # NilDoc
    /\ doc.Application # NilElement

\* C8: a document returned by a successful parse has exactly one of Grant
\* and Application populated, GetDocumentType reports that variant, and the
\* variant is the expected kind when one was given.
C8_ExactlyOneVariant ==
    (pc = "done" /\ err = ErrNil) =>
        /\ doc # NilDoc
        /\ (doc.Grant # NilElement) # (doc.Application # NilElement)
        /\ doc.Grant # NilElement => GetDocumentType(doc) = DocumentTypeGrant
        /\ doc.Application # NilElement
              => GetDocumentType(doc) = DocumentTypeApplication
        /\ expectedType \in {DocumentTypeGrant, DocumentTypeApplication}
              => GetDocumentType(doc) = expectedType

C8_Witness ==
    /\ pc = "done"
    /\ err = ErrNil
    /\ expectedType = DocumentTypeApplication
    /\ doc # NilDoc
    /\ doc.Application # NilElement
    /\ doc.Grant = NilElement
    /\ GetDocumentType(doc) = DocumentTypeApplication

-----------------------------------------------------------------------------
(* Properties of the resolver                                              *)

Resolved(type) == pc = "done" /\ pn # NilPN /\ pn.Type = type

LastResponse == responses[Len(responses)]

\* the search came back with a result (status 200)
SearchReturned == responses # <<>> /\ RequestError(LastResponse) = ErrNil

\* C4: for a Grant the resolver searches the patent-number field for the
\* normalised digits with offset 0 and limit 1; when the search returns no
\* record it fails with the not-found error, when the first record has no
\* application number with the malformed-response error, and otherwise it
\* returns the application number of the first record.
C4_GrantResolution ==
    Resolved(PatentNumberTypeGrant) =>
        LET digits == DigitsOf(DropKindCode(TrimSpace(input))) IN
        /\ requests # <<>>
        /\ \A i \in 1..Len(requests) :
              requests[i] = [Q |-> <<"applicationMetaData.patentNumber:">> \o digits,
                             Offset |-> 0, Limit |-> 1]
        /\ SearchReturned =>
              LET bag == LastResponse.PatentFileWrapperDataBag IN
              IF bag = NilBag \/ bag.val = <<>>
              THEN /\ err = ErrNotFound("grant number", digits)
                   /\ appNo = <<>>
              ELSE IF bag.val[1].ApplicationNumberText = NilString
              THEN /\ err = ErrNoApplicationNumber("grant number", digits)
                   /\ appNo = <<>>
              ELSE /\ err = ErrNil
                   /\ appNo = bag.val[1].ApplicationNumberText.val

C4_Witness ==
    /\ Resolved(PatentNumberTypeGrant)
    /\ SearchReturned
    /\ LastResponse.PatentFileWrapperDataBag # NilBag
    /\ Len(LastResponse.PatentFileWrapperDataBag.val) = 2
    /\ LastResponse.PatentFileWrapperDataBag.val[1].ApplicationNumberText = NilString
    /\ err = ErrNoApplicationNumber("grant number", pn.Normalized)

C12_ApplicationNoExternalCall ==
    Resolved(PatentNumberTypeApplication) =>
        /\ err = ErrNil
        /\ appNo = (IF pn.ApplicationNo # <<>> THEN pn.ApplicationNo ELSE pn.Normalized)
        /\ appNo = DigitsOf(TrimSpace(input))
        /\ searchCalls = 0
        /\ requests = <<>>
        /\ responses = <<>>
        /\ sleeps = <<>>

C12_Witness ==
    /\ Resolved(PatentNumberTypeApplication)
    /\ \E i \in 1..Len(input) : input[i] = "/"
    /\ appNo = pn.ApplicationNo
    /\ Len(appNo) = 8
    /\ requests = <<>>

\* C13 as stated: for a Publication the value queried is the re-formatted
\* one, US + Normalized + A1, when the input of ResolvePatentNumber carried
\* no country prefix, and is not re-formatted when it carried one: it is
\* then Normalized or the input as it was given.
C13_ReformatOnlyWithoutPrefix ==
    Resolved(PatentNumberTypePublication) =>
        \A i \in 1..Len(requests) :
            IF HasPrefixUS(TrimSpace(input))
            THEN requests[i].Q \in
                    { <<"applicationMetaData.earliestPublicationNumber:">> \o v :
                          v \in {pn.Normalized, TrimSpace(input)} }
            ELSE requests[i].Q = <<"applicationMetaData.earliestPublicationNumber:">>
                                    \o <<"U", "S">> \o pn.Normalized \o <<"A", "1">>

\* C13 as amended: for a Publication the resolver always searches the
\* earliest-publication-number field for US + the 11 normalised digits + A1,
\* whether or not the input carried a country prefix or a kind code, with
\* offset 0 and limit 1, and handles no record and a missing application
\* number as for a Grant.
C13_PublicationResolution ==
    Resolved(PatentNumberTypePublication) =>
        LET digits == DigitsOf(DropKindCode(TrimSpace(input))) IN
        /\ Len(digits) = 11
        /\ requests # <<>>
        /\ \A i \in 1..Len(requests) :
              requests[i] = [Q |-> <<"applicationMetaData.earliestPublicationNumber:">>
                                      \o <<"U", "S">> \o digits \o <<"A", "1">>,
                             Offset |-> 0, Limit |-> 1]
        /\ SearchReturned =>
              LET bag == LastResponse.PatentFileWrapperDataBag IN
              IF bag = NilBag \/ bag.val = <<>>
              THEN /\ err = ErrNotFound("publication number", digits)
                   /\ appNo = <<>>
              ELSE IF bag.val[1].ApplicationNumberText = NilString
              THEN /\ err = ErrNoApplicationNumber("publication number", digits)
                   /\ appNo = <<>>
              ELSE /\ err = ErrNil
                   /\ appNo = bag.val[1].ApplicationNumberText.val

C13_Witness ==
    /\ Resolved(PatentNumberTypePublication)
    /\ HasPrefixUS(TrimSpace(input))
    /\ SearchReturned
    /\ err = ErrNil
    /\ Len(appNo) = 8
    /\ requests[1].Q = <<"applicationMetaData.earliestPublicationNumber:">>
                           \o TrimSpace(input)

\* C14: when the caller's context is cancelled or its deadline passes while
\* the search of ResolvePatentNumber is under way, the call returns no
\* application number and an error whose chain holds the context's error
\* (errors.Is finds it); an error of a call whose context stayed live never
\* holds a context error, so the two are told apart.
C14_CancellationPropagated ==
    pc = "done" =>
        /\ ctxErr # ErrNil =>
              /\ err # ErrNil
              /\ appNo = <<>>
              /\ ErrorsIs(err, ctxErr)
              /\ RequestError(LastResponse).cause = ctxErr
        /\ ctxErr = ErrNil =>
              /\ ~ErrorsIs(err, ErrCanceled)
              /\ ~ErrorsIs(err, ErrDeadlineExceeded)

C14_Witness ==
    /\ pc = "done"
    /\ ctxErr = ErrCanceled
    /\ Len(requests) = 3
    /\ responses[1] = StatusResponse(500)
    /\ responses[3] = ContextError(ErrCanceled)
    /\ Len(sleeps) = 2
    /\ ErrorsIs(err, ErrCanceled)

-----------------------------------------------------------------------------
(* Properties of the extraction from the sections of a document            *)

Returned(name) == pc = "done" /\ fn = name /\ ~panicked

\* the pieces with sep between every two of them
RECURSIVE JoinWith(_, _)
JoinWith(pieces, sep) ==
    IF pieces = <<>> THEN <<>>
    ELSE IF Len(pieces) = 1 THEN pieces[1]
    ELSE pieces[1] \o sep \o JoinWith(Tail(pieces), sep)

\* the claims of the document, none when it has no claims section
ClaimListOf(d) ==
    IF Variant(d) = NilElement THEN <<>>
    ELSE IF Variant(d).Claims = NilSection THEN <<>>
    ELSE Variant(d).Claims.ClaimList

\* the text of a claim as C3 has it
TextOfClaim(c) == JoinWithSpace(TrimmedFragments(c.ClaimText))

Occurrences(c, s) == Len(SelectSeq(s, LAMBDA x : x = c))

AnyChar == Digit \cup Upper \cup WhiteSpace \cup {"a", "b", "x", "+", "-", ":", "_"}

\* s is a decimal integer: an optional sign and digits, nothing else
IsInteger(s) ==
    MatchString(<< << Item({"+", "-"}, 0, 1, 0), Item(Digit, 1, Unbounded, 0) >> >>, s)

\* the integer s starts with: spaces, an optional sign (group 1), the
\* longest run of digits (group 2), then anything
LeadingInteger(s) ==
    FindStringSubmatch(<< << Item({" ", "\t"}, 0, Unbounded, 0),
                             Item({"+", "-"}, 0, 1, 1),
                             Item(Digit, 1, Unbounded, 2),
                             Item(AnyChar, 0, Unbounded, 0) >> >>, s)

SignedValue(sign, digits) ==
    IF sign = <<"-">> THEN 0 - DecimalValue(digits) ELSE DecimalValue(digits)

\* the block of the claim at position i of cl, numbered n
Block(n, c) == <<"C", "L", "A", "I", "M", " ">> \o FormatInt(n) \o <<":", "\n">>
                   \o TextOfClaim(c)

\* C15 as stated: the formatted text is one block CLAIM n: newline text per
\* claim, in claim order, joined by a blank line, where n is the declared
\* number when the num attribute (spaces around it aside) is an integer and
\* the 1-based position of the claim otherwise.
C15_NumberWhenInteger ==
    Returned("ExtractAllClaimsTextFormatted") =>
        LET cl == ClaimListOf(doc) IN
        text = JoinWith([i \in 1..Len(cl) |->
                            Block(IF IsInteger(TrimSpace(cl[i].Num))
                                  THEN SignedValue(<<Head(TrimSpace(cl[i].Num))>>,
                                                   DigitsOf(cl[i].Num))
                                  ELSE i,
                                  cl[i])],
                        BlankLine)

\* C15 as amended: the formatted text is one block CLAIM n: newline text per
\* claim, in claim order, joined by a blank line, a claim with empty text
\* included; n is the integer the num attribute starts with (after spaces,
\* with its sign, whatever follows its digits) and the 1-based position of
\* the claim when it starts with none.
C15_FormattedBlocks ==
    Returned("ExtractAllClaimsTextFormatted") =>
        LET cl == ClaimListOf(doc) IN
        /\ text = JoinWith([i \in 1..Len(cl) |->
                               Block(IF LeadingInteger(cl[i].Num) # NoMatch
                                     THEN SignedValue(LeadingInteger(cl[i].Num)[1],
                                                      LeadingInteger(cl[i].Num)[2])
                                     ELSE i,
                                     cl[i])],
                           BlankLine)
        /\ Occurrences("C", text) = Len(cl)

C15_Witness ==
    /\ Returned("ExtractAllClaimsTextFormatted")
    /\ Len(ClaimListOf(doc)) = 2
    /\ ClaimListOf(doc)[1].Num = <<"3", "b">>
    /\ ClaimListOf(doc)[2].Num = <<"x">>
    /\ TextOfClaim(ClaimListOf(doc)[2]) = <<>>
    /\ text = <<"C", "L", "A", "I", "M", " ", "3", ":", "\n", "a", "\n", "\n",
                "C", "L", "A", "I", "M", " ", "2", ":", "\n">>

\* the trimmed texts of the children of the description element with the
\* given tag, in the order of the source
TrimmedTexts(children, tag) ==
    LET of == SelectSeq(children, LAMBDA c : c.tag = tag) IN
    [i \in 1..Len(of) |-> TrimSpace(of[i].Text)]

RECURSIVE DropLeadingEmpty(_)
DropLeadingEmpty(pieces) ==
    IF pieces # <<>> /\ Head(pieces) = <<>> THEN DropLeadingEmpty(Tail(pieces))
    ELSE pieces

RECURSIVE DropTrailingEmpty(_)
DropTrailingEmpty(pieces) ==
    IF pieces # <<>> /\ pieces[Len(pieces)] = <<>>
    THEN DropTrailingEmpty(SubSeq(pieces, 1, Len(pieces) - 1))
    ELSE pieces

\* the pieces without the empty ones at either end
WithoutEmptyEnds(pieces) == DropTrailingEmpty(DropLeadingEmpty(pieces))

DescriptionOf(d) ==
    IF Variant(d) = NilElement THEN NilSection ELSE Variant(d).Description

AbstractOf(d) ==
    IF Variant(d) = NilElement THEN NilSection ELSE Variant(d).Abstract

C17_JoinedEverySequence ==
    Returned("ExtractAbstractText") =>
        IF AbstractOf(doc) = NilSection
        THEN text = <<>>
        ELSE text = JoinWith([i \in 1..Len(AbstractOf(doc).Paragraphs) |->
                                 TrimSpace(AbstractOf(doc).Paragraphs[i].Text)],
                             <<"\n", "\n">>)

\* C17 as amended: ExtractAbstractText returns the texts of the paragraphs
\* of the abstract, each trimmed and in document order, with exactly one
\* blank line between every two consecutive paragraphs, after the empty
\* paragraphs at the start and at the end of the abstract have been left
\* out (the result is trimmed as a whole); empty paragraphs between two
\* others keep their separators; the empty string without abstract.
C17_AbstractText ==
    Returned("ExtractAbstractText") =>
        IF AbstractOf(doc) = NilSection
        THEN text = <<>>
        ELSE text = JoinWith(WithoutEmptyEnds(
                                 [i \in 1..Len(AbstractOf(doc).Paragraphs) |->
                                     TrimSpace(AbstractOf(doc).Paragraphs[i].Text)]),
                             <<"\n", "\n">>)

C17_Witness ==
    /\ Returned("ExtractAbstractText")
    /\ AbstractOf(doc) # NilSection
    /\ Len(AbstractOf(doc).Paragraphs) = 3
    /\ AbstractOf(doc).Paragraphs[1].Text = <<>>
    /\ AbstractOf(doc).Paragraphs[2].Text = <<" ", "b", "\n">>
    /\ text = <<"b", "\n", "\n", "a">>

\* the elements of a []string, none for nil
Elements(strings) == IF strings = NilStrings THEN <<>> ELSE strings.val

\* C18: ExtractAllClaimsText returns, in claim order, the text of every
\* claim whose text is not empty: claims with empty text are left out, the
\* result holds no empty string and at most as many entries as there are
\* claims.
C18_AllClaimsText ==
    Returned("ExtractAllClaimsText") =>
        LET cl == ClaimListOf(doc) IN
        /\ Elements(texts) = SelectSeq([i \in 1..Len(cl) |-> TextOfClaim(cl[i])],
                                       LAMBDA t : t # <<>>)
        /\ \A i \in 1..Len(Elements(texts)) : Elements(texts)[i] # <<>>
        /\ Len(Elements(texts)) <= Len(cl)

C18_Witness ==
    /\ Returned("ExtractAllClaimsText")
    /\ Len(ClaimListOf(doc)) = 2
    /\ TextOfClaim(ClaimListOf(doc)[1]) = <<>>
    /\ texts = Strings(<< <<"b", " ", "a">> >>)

\* C19: on a document that is not nil, no extraction function fails; with
\* neither variant populated, with a nil section (Bibliography, Abstract,
\* Description, Claims) or an empty one, and for a nil claim, GetTitle, the
\* three text extractions and ExtractClaimText return the empty string and
\* ExtractAllClaimsText returns an empty sequence.
C19_Total ==
    (pc = "done" /\ fn # "" /\ doc # NilDoc) =>
        /\ ~panicked
        /\ (fn = "GetTitle"
              /\ (\/ Variant(doc) = NilElement
                  \/ Variant(doc).Bibliography = NilSection
                  \/ Variant(doc).Bibliography.InventionTitle = <<>>))
              => text = <<>>
        /\ (fn = "ExtractAbstractText"
              /\ (\/ AbstractOf(doc) = NilSection
                  \/ AbstractOf(doc).Paragraphs = <<>>))
              => text = <<>>
        /\ (fn = "ExtractDescriptionText"
              /\ (\/ DescriptionOf(doc) = NilSection
                  \/ (DescriptionOf(doc).Headings = <<>>
                        /\ DescriptionOf(doc).Paragraphs = <<>>)))
              => text = <<>>
        /\ (fn = "ExtractAllClaimsText" /\ ClaimListOf(doc) = <<>>)
              => Elements(texts) = <<>>
        /\ (fn = "ExtractAllClaimsTextFormatted" /\ ClaimListOf(doc) = <<>>)
              => text = <<>>
        /\ (fn = "ExtractClaimText" /\ claim = NilClaim) => text = <<>>

C19_Witness ==
    /\ pc = "done"
    /\ fn = "ExtractAbstractText"
    /\ doc # NilDoc
    /\ doc.Grant = NilElement
    /\ doc.Application # NilElement
    /\ doc.Application.Abstract = NilSection
    /\ doc.Application.Claims # NilSection
    /\ ~panicked
    /\ text = <<>>

\* C20: parsing an empty input fails and returns no document, whatever
\* kind is expected: Grant, Application or auto-detect.
C20_EmptyInputFails ==
    (pc = "done" /\ data = <<>>) =>
        /\ doc = NilDoc
        /\ err # ErrNil
        /\ expectedType = DocumentTypeGrant
              => err = [msg |-> "failed to parse as patent grant", cause |-> ErrEOF]
        /\ expectedType = DocumentTypeApplication
              => err = [msg |-> "failed to parse as patent application",
                        cause |-> ErrEOF]
        /\ expectedType = DocumentTypeUnknown => err = ErrUnrecognizedDocument

C20_Witness ==
    /\ pc = "done"
    /\ data = <<>>
    /\ expectedType = DocumentTypeApplication
    /\ doc = NilDoc
    /\ IsMalformedError(err)

-----------------------------------------------------------------------------
(* Properties of the formatters and of normalising again                   *)

\* s is laid out as shape: a digit wherever shape has X, and the character
\* of shape everywhere else
HasShape(s, shape) ==
    /\ Len(s) = Len(shape)
    /\ \A i \in 1..Len(shape) :
         IF shape[i] = "X" THEN s[i] \in Digit ELSE s[i] = shape[i]

ApplicationShape == <<"X", "X", "/", "X", "X", "X", ",", "X", "X", "X">>
GrantShape7 == <<"X", ",", "X", "X", "X", ",", "X", "X", "X">>
GrantShape8 == <<"X", "X", ",", "X", "X", "X", ",", "X", "X", "X">>
PublicationShape == <<"X", "X", "X", "X", "/", "X", "X", "X", "X", "X", "X", "X">>

\* the kind a formatter is for
KindOf(name) ==
    CASE name = "FormatAsApplication" -> PatentNumberTypeApplication
      [] name = "FormatAsGrant" -> PatentNumberTypeGrant
      [] name = "FormatAsPublication" -> PatentNumberTypePublication

Formatted(name) == pc = "done" /\ pn # NilPN /\ formatter = name

\* C21: for every PatentNumber the normaliser returns, the formatter of its
\* own kind gives the digits of Normalized with the standard punctuation:
\* XX/XXX,XXX for an Application, X,XXX,XXX or XX,XXX,XXX for a Grant,
\* YYYY/NNNNNNN for a Publication.
C21_StandardPunctuation ==
    /\ (Formatted("FormatAsApplication") /\ pn.Type = PatentNumberTypeApplication) =>
          /\ HasShape(formatted, ApplicationShape)
          /\ DigitsOf(formatted) = pn.Normalized
    /\ (Formatted("FormatAsGrant") /\ pn.Type = PatentNumberTypeGrant) =>
          /\ HasShape(formatted, GrantShape7) \/ HasShape(formatted, GrantShape8)
          /\ DigitsOf(formatted) = pn.Normalized
    /\ (Formatted("FormatAsPublication") /\ pn.Type = PatentNumberTypePublication) =>
          /\ HasShape(formatted, PublicationShape)
          /\ DigitsOf(formatted) = pn.Normalized

\* C22: a formatter called on a PatentNumber of another kind returns
\* Normalized unchanged, and after the call of any formatter the PatentNumber
\* is still the one the normaliser returned.
C22_NoOpOnOtherKind ==
    (pc = "done" /\ pn # NilPN /\ formatter # "") =>
        /\ pn.Type # KindOf(formatter) => formatted = pn.Normalized
        /\ pn = NormalizePatentNumber(input).pn

C22_Witness ==
    /\ Formatted("FormatAsApplication")
    /\ pn.Type = PatentNumberTypeGrant
    /\ Len(pn.Normalized) = 8
    /\ formatted = pn.Normalized

\* C29 as stated: normalising Normalized again succeeds and returns the same
\* Normalized and the same Type.
C29_RenormalizationStable ==
    (pc = "done" /\ pn # NilPN /\ second.called) =>
        /\ second.err = ErrNil
        /\ second.pn # NilPN
        /\ second.pn.Normalized = pn.Normalized
        /\ second.pn.Type = pn.Type

\* C29: normalising Normalized again succeeds and returns the same
\* Normalized; the Type is the same too, except that a Grant of 8 digits comes
\* back as an Application (8 bare digits are taken for an application).
C29_RenormalizationKeepsDigits ==
    (pc = "done" /\ pn # NilPN /\ second.called) =>
        /\ second.err = ErrNil
        /\ second.pn # NilPN
        /\ second.pn.Normalized = pn.Normalized
        /\ second.pn.Type =
              IF pn.Type = PatentNumberTypeGrant /\ Len(pn.Normalized) = 8
              THEN PatentNumberTypeApplication
              ELSE pn.Type

C29_Witness ==
    /\ pc = "done"
    /\ pn # NilPN
    /\ second.called
    /\ pn.Type = PatentNumberTypeGrant
    /\ Len(pn.Normalized) = 8
    /\ second.pn.Type = PatentNumberTypeApplication
    /\ second.pn.Normalized = pn.Normalized

-----------------------------------------------------------------------------
(* Properties of retryableRequest                                          *)

\* an attempt failed: an error of the HTTP client or a status other than 200
Failed(resp) == resp.kind # "status" \/ resp.code # 200

C25_RetryLoop ==
    (pc = "done" /\ searchCalls = 1 /\ maxRetries >= 0) =>
        /\ Len(requests) \in 1..(maxRetries + 1)
        /\ Len(responses) = Len(requests)
        /\ \A i \in 1..Len(responses) :
              /\ (RequestError(responses[i]) # ErrNil) = Failed(responses[i])
              /\ ~Failed(responses[i]) => i = Len(responses)
        /\ IF \E i \in 1..Len(responses) : ~Failed(responses[i])
           THEN "cause" \notin DOMAIN err
           ELSE /\ Len(requests) = maxRetries + 1
                /\ err # ErrNil
                /\ err.cause = [msg |-> "failed after retries",
                                cause |-> RequestError(LastResponse)]

C25_Witness ==
    /\ pc = "done"
    /\ searchCalls = 1
    /\ maxRetries = 2
    /\ Len(requests) = 3
    /\ responses[1] = TransportError
    /\ responses[2] = StatusResponse(404)
    /\ responses[3] = StatusResponse(500)
    /\ err.cause.cause = [msg |-> "API returned status", code |-> 500]

-----------------------------------------------------------------------------
(* Properties of the bulk file download                                    *)

\* the URL starts with https://api.uspto.gov/api/v1/datasets/products/files/
StartsWithFilesURL(s) ==
    /\ Len(s) >= Len(expectedPrefix)
    /\ \A i \in 1..Len(expectedPrefix) : s[i] = expectedPrefix[i]

\* C23: the download functions accept only a URL that starts with the files
\* URL of the API: for the empty URL and for any other URL they return an
\* error and never send a request (so no API key either), never call the
\* progress callback and never write to w; a URL that starts with it gets
\* past the validation and the request is sent.
C23_OnlyFilesURL ==
    /\ ~StartsWithFilesURL(uri) =>
          /\ sent = <<>>
          /\ response = NoResponse
          /\ progressCalls = <<>>
          /\ gpc = "none"
          /\ w = <<>>
          /\ pc = "done" => err # ErrNil
    /\ (StartsWithFilesURL(uri) /\ pc # "call") =>
          sent = <<[URL |-> uri,
                    Header |-> IF apiKey # "" THEN [XAPIKey |-> apiKey]
                               ELSE [none |-> TRUE]]>>

C23_Witness ==
    /\ pc = "done"
    /\ uri = <<"h", "t", "t", "p">> \o SubSeq(expectedPrefix, 6, Len(expectedPrefix))
                 \o FileName
    /\ apiKey = "key"
    /\ progress
    /\ err = ErrInvalidURI(uri)
    /\ sent = <<>>

\* the outcome and the bytes of the call without a callback for the response
\* of this call
Direct ==
    LET c == CopyBody(response.Body, response.End, wCap) IN
    [err |-> AfterCopy(c.err, Len(c.bytes), response.ContentLength), w |-> c.bytes]

\* C27: for every response body a call with a progress callback returns an
\* error exactly when the call without a callback does, and writes the same
\* bytes to w; a read of the body that failed is never reported as a success.
C27_SameOutcomeWithCallback ==
    (pc = "done" /\ progress /\ response.kind = "status" /\ response.code = 200) =>
        /\ (err = ErrNil) = (Direct.err = ErrNil)
        /\ w = Direct.w
        /\ response.End = "error" => err # ErrNil

\* C28: in every execution with a progress callback the reader goroutine,
\* once started, eventually returns; it does not stay blocked on the pipe.
C28_GoroutineTerminates == (gpc \in {"read", "write"}) ~> (gpc = "exit")

-----------------------------------------------------------------------------
(* Properties of GetPatent                                                 *)

\* ResolvePatentNumber has returned an application number and no error
ResolvedFor(number) ==
    /\ pn # NilPN
    /\ number # <<>>
    /\ IF pn.Type = PatentNumberTypeApplication
       THEN requests = <<>> /\ number = pn.Normalized
       ELSE /\ SearchReturned
            /\ LastResponse.PatentFileWrapperDataBag # NilBag
            /\ LastResponse.PatentFileWrapperDataBag.val # <<>>
            /\ LastResponse.PatentFileWrapperDataBag.val[1].ApplicationNumberText
                  = [nil |-> FALSE, val |-> number]

\* the error of a ResolvePatentNumber that failed, from the input and the
\* outcomes of the search requests
ResolveFailure ==
    IF pn = NilPN
    THEN [msg |-> "invalid patent number", cause |-> NormalizePatentNumber(input).err]
    ELSE LET what == IF pn.Type = PatentNumberTypeGrant THEN "grant number"
                     ELSE "publication number"
         IN  IF ~SearchReturned
             THEN [msg |-> "failed to search for", what |-> what,
                   number |-> pn.Normalized,
                   cause |-> [msg |-> "failed after retries",
                              cause |-> RequestError(LastResponse)]]
             ELSE IF LastResponse.PatentFileWrapperDataBag = NilBag
                        \/ LastResponse.PatentFileWrapperDataBag.val = <<>>
             THEN [msg |-> "no application found for", what |-> what,
                   number |-> pn.Normalized]
             ELSE [msg |-> "application number not found in response for",
                   what |-> what, number |-> pn.Normalized]

\* C26: GetPatent sends the application-data request only after
\* ResolvePatentNumber has succeeded, and for the application number it
\* returned; when normalisation or resolution fails GetPatent returns the
\* resolver's error and no data without sending that request, and for an
\* invalid identifier no request of any kind is sent.
C26_RequestAfterResolution ==
    /\ pc \in {"call", "request", "sleep", "done"} => dataRequests = <<>>
    /\ \A i \in 1..Len(dataRequests) :
          /\ ResolvedFor(dataRequests[i])
          /\ dataRequests[i] = appNo
    /\ (pc = "returned" /\ dataRequests = <<>> /\ maxRetries >= 0) =>
          /\ ~ResolvedFor(appNo)
          /\ patent = NilPatent
          /\ err # ErrNil
          /\ err = ResolveFailure
    /\ (pc = "returned" /\ pn = NilPN) =>
          /\ err.msg = "invalid patent number"
          /\ requests = <<>>
          /\ dataRequests = <<>>
    /\ (pc = "returned" /\ ResolvedFor(appNo) /\ maxRetries >= 0) => dataRequests # <<>>

C26_Witness ==
    /\ pc = "returned"
    /\ pn # NilPN
    /\ pn.Type = PatentNumberTypeGrant
    /\ Len(requests) = 2
    /\ appNo = Digits(3, 8)
    /\ dataRequests = <<Digits(3, 8), Digits(3, 8)>>
    /\ patent = [nil |-> FALSE, applicationNumberText |-> Digits(3, 8)]
    /\ err = ErrNil

-----------------------------------------------------------------------------
(* Auto-detection against parsing with the type given                      *)

\* the call returned a document of kind type
ParsedAs(r, type) ==
    /\ r.err = ErrNil
    /\ r.doc # NilDoc
    /\ type = (IF r.doc.Grant # NilElement THEN DocumentTypeGrant
               ELSE IF r.doc.Application # NilElement THEN DocumentTypeApplication
               ELSE DocumentTypeUnknown)

\* C30: for every input and each kind K of Grant and Application, ParseXML
\* returns a document of kind K exactly when ParseXMLWithType with expected
\* type K succeeds, the two return the same document, and no input parses
\* both as a Grant and as an Application.
C30_AutoDetectAgreesWithExplicit ==
    pc = "done" =>
        LET returned == [doc |-> doc, err |-> err]
            kinds == {DocumentTypeGrant, DocumentTypeApplication}
        IN  /\ expectedType = DocumentTypeUnknown =>
                  \A k \in kinds :
                      /\ ParsedAs(returned, k) = (ParseXMLWithType(data, k).err = ErrNil)
                      /\ ParsedAs(returned, k) => doc = ParseXMLWithType(data, k).doc
            /\ expectedType \in kinds =>
                  /\ (err = ErrNil) = ParsedAs(ParseXMLWithType(data, DocumentTypeUnknown),
                                               expectedType)
                  /\ err = ErrNil =>
                        /\ ParsedAs(returned, expectedType)
                        /\ doc = ParseXMLWithType(data, DocumentTypeUnknown).doc
                        /\ \A k \in kinds \ {expectedType} :
                              ParseXMLWithType(data, k).err # ErrNil

C30_Witness ==
    /\ pc = "done"
    /\ expectedType = DocumentTypeApplication
    /\ err = ErrNil
    /\ doc # NilDoc
    /\ doc.Application # NilElement
    /\ doc.Grant = NilElement
    /\ Len(data) = MaxTokens
    /\ ParseXMLWithType(data, DocumentTypeUnknown).doc = doc
    /\ ParseXMLWithType(data, DocumentTypeGrant).err # ErrNil

====
